---- MODULE Spec2Model ----
(***************************************************************************)
(* A model of apple_ocr: the Swift OCR engine client (ocr_client.py), its  *)
(* background reader and result queue, and the extract_text pipeline of    *)
(* api.py that drives it.                                                  *)
(*                                                                         *)
(* Specifications:                                                         *)
(*   Spec        one SwiftOCRClient used by a single caller thread that    *)
(*               makes any sequence of start / send_image /                *)
(*               collect_results / stop calls, with the engine subprocess  *)
(*               and the reader threads running concurrently.              *)
(*   SpecFair    Spec with the caller's bounded waits taken eventually.    *)
(*   SpecSession one start / send_image* / stop session of the client      *)
(*               with the subprocess's pipes of bounded capacity.          *)
(*   SpecExtract AppleOCR.extract_text driving a fresh client.             *)
(*   SpecPipeline extract_text, extract_text_from_images and cli's         *)
(*               process_one with the page renderer and the composer.      *)
(*   SpecRender  render_pdf_stream with its worker pool.                   *)
(*   SpecCompose one OverlayComposer under any sequence of                 *)
(*               add_page_overlay and write_final calls.                   *)
(*   SpecApply   the pure functions of overlay_builder.py and              *)
(*               page_parser.py applied to bounded inputs.                 *)
(***************************************************************************)
EXTENDS Integers, Sequences, FiniteSets, TLC

\* ------------------------------------------------------------------ bounds
\* calls of the caller that change the client: start() launching a process,
\* send_image() writing a job, collect_results() creating a generator
MaxCalls == 4
\* start() calls that launch a subprocess
MaxStarts == 2
\* largest expected_pages argument of collect_results
MaxExpected == MaxCalls - 1
\* pages of the document handed to extract_text
MaxPages == 2

\* self.proc = None / self._out_thread = None
NoProc == 0
NoThread == 0

VARIABLES
    client,    \* the SwiftOCRClient fields: proc, _out_thread
    procs,     \* every subprocess launched so far (Popen objects)
    threads,   \* every reader thread created so far
    queue,     \* self._queue: OCRResults and Exceptions, FIFO
    pc,        \* where the caller thread is inside a client call
    gen,       \* the collect_results generator of the caller
    yields,    \* what the running collect_results generator has yielded so far
    outcome,   \* how the step just taken by the caller ended (NoCall after a
               \* step of the engine or of a reader)
    ncalls,    \* calls made so far that changed the client
    xpc,       \* extract_text: position
    pending,   \* extract_text: pages render_pdf_stream has still to yield
    rendered,  \* extract_text: rendered_pages
    results,   \* extract_text: results
    ret,       \* extract_text: how it ended
    render,    \* one run of render_pdf_stream: its arguments, its futures and
               \* what it has yielded
    call,      \* one application of a pure function: its arguments and result
    args,      \* process_one: the --pages and --skip-pages arguments
    composer,  \* the OverlayComposer
    output,    \* the file at the composer's output path
    pipes,     \* the operating system's side of the subprocess's pipes: how
               \* much of stdin the engine has read, what sits in stderr,
               \* and whether the engine is blocked in a write
    steps      \* the steps the running stop() call has performed, in order

cvars == <<client, procs, threads, queue, pc, gen, yields, outcome, ncalls>>
xvars == <<xpc, pending, rendered, results, ret, render, call,
           args, composer, output, pipes, steps>>
vars == <<client, procs, threads, queue, pc, gen, yields, outcome, ncalls,
          xpc, pending, rendered, results, ret, render, call,
          args, composer, output, pipes, steps>>
\* the command line, the composer and its file
ovars == <<args, composer, output>>
\* the pipes of the subprocess and the log of stop()
svars == <<pipes, steps>>

Pages == 0 .. (MaxPages - 1)

\* longest selected_pages list handed to render_pdf_stream
MaxSelected == 2

\* render_pdf_stream is not running; no function is being applied
NoRender == [at |-> "off"]
NoApply == [fn |-> "none"]

\* an argument of the command line that is absent, or the text given
NoArg == [given |-> FALSE, text |-> <<>>]
Arg(text) == [given |-> TRUE, text |-> text]
\* process_one is not running
NoArgs == [cli |-> FALSE, pages |-> NoArg, skip_pages |-> NoArg]

\* OverlayComposer(output_pdf) as __init__ leaves it.  overlays: the keys of
\* self.overlays in insertion order; merged: for each page object of the
\* reader, how many overlays were merged into it; writer: the pages added to
\* self.writer, each as it was when added; readers: PdfReader objects made.
NewComposer ==
    [overlays |-> <<>>, merged |-> [p \in Pages |-> 0], writer |-> <<>>,
     readers |-> 0]

\* No subprocess whose pipes are followed
NoPipes == [read |-> 0, stderr |-> 0, engine |-> "off"]

\* The file at the output path: absent, partial (opened for writing and not
\* yet wholly written) or complete; produced counts the times it was written
\* wholly.
NoOutput == [state |-> "absent", pages |-> <<>>, produced |-> 0]

\* ------------------------------------------------------------ exceptions
\* An exception is modelled by what its message carries.  A field the
\* message does not carry is the empty sequence.
Exc(cls, text, code, collected, expected) ==
    [kind |-> "exception", cls |-> cls, text |-> text, code |-> code,
     collected |-> collected, expected |-> expected]

\* RuntimeError("Swift OCR 可执行文件不存在: {swift_bin}")
ConfigurationError == Exc("missing_executable", "", <<>>, <<>>, <<>>)
\* RuntimeError("Swift OCR 进程未启动，请先调用 start()")
NotStartedError == Exc("not_started", "", <<>>, <<>>, <<>>)
\* A faulty variant of ProcessExitedError: the message shows a fixed code
\* instead of the one poll() returned.
ProcessExitedError_fixed_code(code) == Exc("process_exited", "", <<0>>, <<>>, <<>>)

\* RuntimeError("Swift OCR 进程已退出，退出码: {code}")
ProcessExitedError(code) == Exc("process_exited", "", code, <<>>, <<>>)
\* RuntimeError("无法发送OCR任务到Swift进程: {e}")
SendFailedError == Exc("send_failed", "", <<>>, <<>>, <<>>)
\* A faulty variant of TimeoutError: the two counts change places.
TimeoutError_swapped(collected, expected) ==
    Exc("timeout", "", <<>>, <<expected>>, <<collected>>)

\* RuntimeError("等待OCR结果超时（{timeout}秒）。已收集 {collected}/{expected_pages} 个结果")
TimeoutError(collected, expected) ==
    Exc("timeout", "", <<>>, <<collected>>, <<expected>>)
\* RuntimeError(msg.get("message", "Swift OCR error"))
EngineError(message) == Exc("engine_error", message, <<>>, <<>>, <<>>)
\* RuntimeError("JSON解析错误: {e}")
JSONError == Exc("json_error", "", <<>>, <<>>, <<>>)
\* RuntimeError("Swift OCR 进程意外退出，退出码: {exit_code}")
UnexpectedExitError(code) == Exc("unexpected_exit", "", code, <<>>, <<>>)
\* RuntimeError("读取进程输出失败: {e}")
ReadFailedError == Exc("read_failed", "", <<>>, <<>>, <<>>)

\* The errors that tell the caller there is no usable subprocess.
ProcessUnavailable(e) ==
    e.kind = "exception" /\ e.cls \in {"not_started", "process_exited", "send_failed"}

\* OCRItem built from one element of a result message's "items"; numbers are
\* in thousandths; confidence is 1.0 when the element has none
OCRItem(i) ==
    [text |-> i.text, x |-> i.bbox.x, y |-> i.bbox.y, w |-> i.bbox.w,
     h |-> i.bbox.h,
     confidence |-> IF "confidence" \in DOMAIN i THEN i.confidence ELSE 1000]

\* OCRResult
OCRResult(page_index, width, height, items) ==
    [kind |-> "result", page_index |-> page_index, width |-> width,
     height |-> height, items |-> items]

\* ------------------------------------------------------------ the engine
\* Lines on the subprocess's stdin
JobLine(page_index) == [cmd |-> "ocr", page_index |-> page_index]
StopLine == [cmd |-> "stop"]

\* Lines the engine writes to its stdout
\* what the engine reports for a page: the size of its image and what it
\* recognised there (one item on the first pages, two on the later ones, the
\* last one without a confidence)
EngineWidth(page_index) == 100 * (page_index + 1)
EngineHeight(page_index) == 150 * (page_index + 1)
EngineItems(page_index) ==
    IF page_index = 0
    THEN <<[text |-> "Hello", bbox |-> [x |-> 100, y |-> 200, w |-> 300, h |-> 100],
            confidence |-> 900]>>
    ELSE IF page_index = 1
    THEN <<[text |-> "World", bbox |-> [x |-> 500, y |-> 500, w |-> 200, h |-> 200],
            confidence |-> 950]>>
    ELSE <<[text |-> "foo", bbox |-> [x |-> 10, y |-> 20, w |-> 30, h |-> 40],
            confidence |-> 500],
           [text |-> "bar", bbox |-> [x |-> 50, y |-> 60, w |-> 70, h |-> 80]]>>

ResultLine(page_index) ==
    [type |-> "result", page_index |-> page_index,
     width |-> EngineWidth(page_index), height |-> EngineHeight(page_index),
     items |-> EngineItems(page_index)]
ErrorLine(message) == [type |-> "error", message |-> message]
\* a line that is not JSON
GarbageLine == [type |-> "garbage"]
\* a JSON object whose "type" is neither "result" nor "error"
OtherLine == [type |-> "other"]

\* Texts an engine "error" message carries
Messages == {"boom"}

ResponseLines(page_index) ==
    {ResultLine(page_index), GarbageLine, OtherLine}
        \cup {ErrorLine(m) : m \in Messages}

\* Exit codes of an engine that exits by itself
ExitCodes == {1}

\* subprocess.Popen([...], stdin=PIPE, stdout=PIPE, stderr=PIPE)
NewProc ==
    [returncode |-> <<>>,       \* <<>>: running (poll() returns None)
     stdin |-> <<>>,            \* every line written to it
     stdin_closed |-> FALSE,
     answered |-> {},           \* positions of stdin the engine has answered
     stdout |-> <<>>,           \* lines written and not yet read
     stdout_closed |-> FALSE,
     stderr_closed |-> FALSE]

\* threading.Thread(target=self._reader, daemon=True)
NewThread(p) == [state |-> "running", stdout |-> p]

\* A thread that has ended: "done" when _reader returned, "crashed" when an
\* exception left it.  It holds no stream any more.
EndedThread(how) == [state |-> how, stdout |-> NoProc]

\* Popen.poll(): <<>> while the process runs, <<code>> once it has exited
poll(p) == procs[p].returncode

\* Thread.is_alive()
thread_alive(t) == threads[t].state = "running"

\* --------------------------------------------------------------- outcomes
\* value: the exception raised or the item yielded.  An outcome of the
\* collect_results generator also tells the call's expected_pages and what the
\* call has yielded.
Returned(op) == [op |-> op, status |-> "returned", value |-> <<>>]
Raised(op, e) == [op |-> op, status |-> "raised", value |-> <<e>>]
NoCall == [op |-> "none", status |-> "returned", value |-> <<>>]
GenOutcome(status, value, expected, yielded) ==
    [op |-> "collect", status |-> status, value |-> value,
     expected |-> expected, yielded |-> yielded]

NoGen == [active |-> FALSE, expected |-> 0, collected |-> 0]

\* SwiftOCRClient.is_alive
is_alive == client.proc # NoProc /\ poll(client.proc) = <<>>

\* The lifecycle states of a client, read from its fields: no process was
\* ever launched; a process handle is held; stop() has cleared the handle.
NotStarted == procs = <<>> /\ client.proc = NoProc
Running == client.proc # NoProc
Stopped == procs # <<>> /\ client.proc = NoProc

\* A faulty variant of start: the process is launched before the executable
\* is looked for.
start_launch_first(exists) ==
    /\ Len(procs) < MaxStarts
    /\ procs' = Append(procs, NewProc)
    /\ threads' = Append(threads, NewThread(Len(procs) + 1))
    /\ client' = [proc |-> Len(procs) + 1, out_thread |-> Len(threads) + 1]
    /\ outcome' = IF exists THEN Returned("start")
                  ELSE Raised("start", ConfigurationError)

\* ------------------------------------------------------ SwiftOCRClient.start
start(exists) ==
    IF ~exists
    THEN /\ outcome' = Raised("start", ConfigurationError)
         /\ UNCHANGED <<client, procs, threads>>
    ELSE /\ Len(procs) < MaxStarts
         /\ procs' = Append(procs, NewProc)
         /\ threads' = Append(threads, NewThread(Len(procs) + 1))
         /\ client' = [proc |-> Len(procs) + 1, out_thread |-> Len(threads) + 1]
         /\ outcome' = Returned("start")

\* A faulty variant of send_image: the process is not probed before the write.
send_image_no_probe(page_index, broken) ==
    IF client.proc = NoProc
    THEN /\ outcome' = Raised("send_image", NotStartedError)
         /\ UNCHANGED procs
    ELSE IF broken
    THEN /\ outcome' = Raised("send_image", SendFailedError)
         /\ UNCHANGED procs
    ELSE /\ procs' = [procs EXCEPT ![client.proc].stdin = Append(@, JobLine(page_index))]
         /\ outcome' = Returned("send_image")

\* ------------------------------------------------- SwiftOCRClient.send_image
\* broken: the write or flush raises BrokenPipeError/OSError although poll()
\* just saw the process running (the engine closed its end, or exited since).
send_image(page_index, broken) ==
    IF client.proc = NoProc
    THEN /\ outcome' = Raised("send_image", NotStartedError)
         /\ UNCHANGED procs
    ELSE IF poll(client.proc) # <<>>
    THEN /\ outcome' = Raised("send_image", ProcessExitedError(poll(client.proc)))
         /\ UNCHANGED procs
    ELSE IF broken
    THEN /\ outcome' = Raised("send_image", SendFailedError)
         /\ UNCHANGED procs
    ELSE /\ procs' = [procs EXCEPT ![client.proc].stdin = Append(@, JobLine(page_index))]
         /\ outcome' = Returned("send_image")

\* ------------------------------------------------------ SwiftOCRClient.stop
\* A faulty variant of stop_signal: the stop line is written and stop()
\* returns at once, the input stream left open and the handle kept.
stop_signal_keeps_handle ==
    IF client.proc = NoProc
    THEN /\ outcome' = Returned("stop")
         /\ UNCHANGED <<procs, pc>>
    ELSE /\ procs' = IF poll(client.proc) # <<>>
                     THEN procs
                     ELSE [procs EXCEPT ![client.proc].stdin = Append(@, StopLine)]
         /\ outcome' = Returned("stop")
         /\ UNCHANGED pc

\* lines 72-82: nothing to do without a process; else write the stop line and
\* close stdin.  The write raises when the process has exited: the exception
\* is swallowed and stdin stays open.
stop_signal ==
    IF client.proc = NoProc
    THEN /\ outcome' = Returned("stop")
         /\ UNCHANGED <<procs, pc>>
    ELSE /\ procs' = IF poll(client.proc) # <<>>
                     THEN procs
                     ELSE [procs EXCEPT ![client.proc].stdin = Append(@, StopLine),
                                        ![client.proc].stdin_closed = TRUE]
         /\ pc' = "stop_join"
         /\ outcome' = NoCall

\* lines 85-112: join the reader for at most a second (the step is taken when
\* the reader has ended or the second is over), terminate, wait, kill when the
\* wait times out, close stdout and stderr, clear the handles.  A process
\* still running is ended by the signal; what its streams held is gone with
\* the handles.
stop_finish ==
    /\ pc = "stop_join"
    /\ LET p == client.proc
       IN procs' = [procs EXCEPT ![p].returncode =
                                     IF poll(p) # <<>> THEN poll(p) ELSE << -15 >>,
                                 ![p].stdin = <<>>,
                                 ![p].answered = {},
                                 ![p].stdout = <<>>,
                                 ![p].stdout_closed = TRUE,
                                 ![p].stderr_closed = TRUE]
    /\ client' = [proc |-> NoProc, out_thread |-> NoThread]
    /\ pc' = "idle"
    /\ outcome' = Returned("stop")

\* ------------------------------------------- SwiftOCRClient.collect_results
\* Calling the generator function runs none of its body.
collect_results(expected_pages) ==
    /\ gen' = [active |-> TRUE, expected |-> expected_pages, collected |-> 0]
    /\ yields' = <<>>

\* Faulty variants of the loop condition: one turn too many, one too few.
collect_more_inclusive(collected, expected_pages) == collected <= expected_pages
collect_more_short(collected, expected_pages) == collected + 1 < expected_pages

\* The loop condition of line 226
collect_more(collected, expected_pages) == collected < expected_pages

\* A faulty variant of collect_item: an Exception entry is dropped and the
\* loop goes on.
collect_item_skip_errors(item) ==
    IF item.kind = "exception"
    THEN /\ outcome' = NoCall
         /\ UNCHANGED <<gen, yields>>
    ELSE /\ gen' = [gen EXCEPT !.collected = @ + 1]
         /\ yields' = Append(yields, item)
         /\ outcome' = GenOutcome("yielded", <<item>>, gen.expected,
                                  Append(yields, item))

\* A faulty variant of collect_item: a result of a lower page than the one
\* yielded last is put before what was yielded.
collect_item_in_page_order(item) ==
    IF item.kind = "exception"
    THEN /\ outcome' = GenOutcome("raised", <<item>>, gen.expected, yields)
         /\ gen' = NoGen
         /\ yields' = <<>>
    ELSE /\ gen' = [gen EXCEPT !.collected = @ + 1]
         /\ yields' = IF yields # <<>> /\ item.page_index < yields[Len(yields)].page_index
                       THEN <<item>> \o yields
                       ELSE Append(yields, item)
         /\ outcome' = GenOutcome("yielded", <<item>>, gen.expected, yields')

\* lines 239-245: an Exception entry is raised, a result is counted and yielded
collect_item(item) ==
    IF item.kind = "exception"
    THEN /\ outcome' = GenOutcome("raised", <<item>>, gen.expected, yields)
         /\ gen' = NoGen
         /\ yields' = <<>>
    ELSE /\ gen' = [gen EXCEPT !.collected = @ + 1]
         /\ yields' = Append(yields, item)
         /\ outcome' = GenOutcome("yielded", <<item>>, gen.expected,
                                  Append(yields, item))

\* lines 226-245, one turn of the loop up to where it blocks: the loop
\* condition, the liveness check, and queue.get() when an entry is there (it
\* then returns at once; with the queue empty the caller waits in it).
collect_check ==
    /\ gen.active
    /\ IF ~collect_more(gen.collected, gen.expected)
       THEN /\ gen' = NoGen
            /\ yields' = <<>>
            /\ outcome' = GenOutcome("returned", <<>>, gen.expected, yields)
            /\ UNCHANGED <<pc, queue>>
       ELSE IF client.proc # NoProc /\ poll(client.proc) # <<>>
       THEN /\ gen' = NoGen
            /\ yields' = <<>>
            /\ outcome' = GenOutcome("raised", <<ProcessExitedError(poll(client.proc))>>,
                                     gen.expected, yields)
            /\ UNCHANGED <<pc, queue>>
       ELSE IF queue = <<>>
       THEN /\ pc' = "collect_get"
            /\ outcome' = NoCall
            /\ UNCHANGED <<gen, yields, queue>>
       ELSE /\ queue' = Tail(queue)
            /\ collect_item(Head(queue))
            /\ UNCHANGED pc

\* A faulty variant of collect_get: queue.get() without a timeout.
collect_get_without_timeout ==
    /\ pc = "collect_get"
    /\ queue # <<>>
    /\ pc' = "idle"
    /\ queue' = Tail(queue)
    /\ collect_item(Head(queue))

\* lines 232-245, the caller waiting in queue.get(timeout): it raises
\* queue.Empty when the time is over with the queue still empty, and returns
\* the entry that arrives before.
collect_get ==
    /\ pc = "collect_get"
    /\ pc' = "idle"
    /\ IF queue = <<>>
       THEN /\ outcome' = GenOutcome("raised",
                                     <<TimeoutError(gen.collected, gen.expected)>>,
                                     gen.expected, yields)
            /\ gen' = NoGen
            /\ yields' = <<>>
            /\ UNCHANGED queue
       ELSE /\ queue' = Tail(queue)
            /\ collect_item(Head(queue))

\* ----------------------------------------------------- the engine process
\* positions of the jobs process p has received and not answered
Unanswered(p) ==
    {k \in 1 .. Len(procs[p].stdin) :
        procs[p].stdin[k].cmd = "ocr" /\ k \notin procs[p].answered}

\* The engine answers a job it has received, in any order, with one line.
EngineRespond(p, k, line) ==
    /\ poll(p) = <<>>
    /\ k \in Unanswered(p)
    /\ line \in ResponseLines(procs[p].stdin[k].page_index)
    /\ procs' = [procs EXCEPT ![p].answered = @ \cup {k},
                              ![p].stdout = Append(@, line)]
    /\ outcome' = NoCall
    /\ UNCHANGED <<client, threads, queue, pc, gen, yields, ncalls>>

\* The engine exits: a crash, or its reaction to the stop line.  What it
\* knew of its jobs is gone.
EngineExit(p, code) ==
    /\ poll(p) = <<>>
    /\ procs' = [procs EXCEPT ![p].returncode = <<code>>, ![p].answered = {}]
    /\ outcome' = NoCall
    /\ UNCHANGED <<client, threads, queue, pc, gen, yields, ncalls>>

\* ------------------------------------------------- SwiftOCRClient._reader
\* A faulty variant of Decode: a line that is not JSON is passed over.
Decode_garbage_passed_over(line) ==
    CASE line.type = "result" ->
            <<OCRResult(line.page_index, line.width, line.height,
                        [k \in 1 .. Len(line.items) |-> OCRItem(line.items[k])])>>
      [] line.type = "error" ->
            <<EngineError(line.message)>>
      [] OTHER -> <<>>

\* lines 173-201: what one decoded line puts into the queue
Decode(line) ==
    CASE line.type = "result" ->
            <<OCRResult(line.page_index, line.width, line.height,
                        [k \in 1 .. Len(line.items) |-> OCRItem(line.items[k])])>>
      [] line.type = "error" ->
            <<EngineError(line.message)>>
      [] line.type = "garbage" -> <<JSONError>>
      [] OTHER -> <<>>

\* lines 162-204: one line read from the stream the thread took
ReaderLine(t) ==
    /\ threads[t].state = "running"
    /\ LET b == threads[t].stdout
       IN /\ ~procs[b].stdout_closed
          /\ procs[b].stdout # <<>>
          /\ procs' = [procs EXCEPT ![b].stdout = Tail(@)]
          /\ IF client.proc = NoProc
             \* self.proc.poll() raises AttributeError: caught at line 202, and
             \* raised again by the finally clause, which ends the thread
             THEN /\ queue' = Append(queue, ReadFailedError)
                  /\ threads' = [threads EXCEPT ![t] = EndedThread("crashed")]
             ELSE IF poll(client.proc) # <<>>
             THEN /\ queue' = Append(queue, UnexpectedExitError(poll(client.proc)))
                  /\ threads' = [threads EXCEPT ![t] = EndedThread("done")]
             ELSE /\ queue' = queue \o Decode(Head(procs[b].stdout))
                  /\ UNCHANGED threads
    /\ outcome' = NoCall
    /\ UNCHANGED <<client, pc, gen, yields, ncalls>>

\* The stream ends (the process exited and its output is drained) or was
\* closed by stop(): the loop ends and the finally clause runs.
ReaderEnd(t) ==
    /\ threads[t].state = "running"
    /\ LET b == threads[t].stdout
       IN \/ procs[b].stdout_closed
          \/ procs[b].stdout = <<>> /\ procs[b].returncode # <<>>
    /\ threads' = [threads EXCEPT ![t] =
                       EndedThread(IF client.proc = NoProc THEN "crashed" ELSE "done")]
    /\ outcome' = NoCall
    /\ UNCHANGED <<client, procs, queue, pc, gen, yields, ncalls>>

Engine ==
    \E p \in 1 .. Len(procs) :
        \/ \E k \in Unanswered(p) :
              \E line \in ResponseLines(procs[p].stdin[k].page_index) :
                  EngineRespond(p, k, line)
        \/ \E code \in ExitCodes : EngineExit(p, code)

Reader ==
    \E t \in 1 .. Len(threads) : ReaderLine(t) \/ ReaderEnd(t)

\* ------------------------------------------------- the caller of Spec
CallStart ==
    /\ pc = "idle"
    /\ ncalls < MaxCalls
    /\ \E exists \in BOOLEAN : start(exists)
    /\ ncalls' = IF outcome'.status = "returned" THEN ncalls + 1 ELSE ncalls
    /\ UNCHANGED <<queue, pc, gen, yields>>

CallSend ==
    /\ pc = "idle"
    /\ ncalls < MaxCalls
    /\ \E broken \in BOOLEAN : send_image(ncalls, broken)
    /\ ncalls' = IF outcome'.status = "returned" THEN ncalls + 1 ELSE ncalls
    /\ UNCHANGED <<client, threads, queue, pc, gen, yields>>

CallStop ==
    /\ pc = "idle"
    /\ stop_signal
    /\ UNCHANGED <<client, threads, queue, gen, yields, ncalls>>

StopFinish ==
    /\ stop_finish
    /\ UNCHANGED <<threads, queue, gen, yields, ncalls>>

CallCollect ==
    /\ pc = "idle"
    /\ ncalls < MaxCalls
    /\ ncalls' = ncalls + 1
    /\ \E n \in 0 .. MaxExpected : collect_results(n)
    /\ outcome' = Returned("collect_results")
    /\ UNCHANGED <<client, procs, threads, queue, pc>>

CollectCheck ==
    /\ pc = "idle"
    /\ collect_check
    /\ UNCHANGED <<client, procs, threads, ncalls>>

CollectGet ==
    /\ collect_get
    /\ UNCHANGED <<client, procs, threads, ncalls>>

Caller ==
    \/ CallStart \/ CallSend \/ CallStop \/ StopFinish
    \/ CallCollect \/ CollectCheck \/ CollectGet

Init ==
    /\ pipes = NoPipes
    /\ steps = <<>>
    /\ client = [proc |-> NoProc, out_thread |-> NoThread]
    /\ procs = <<>>
    /\ threads = <<>>
    /\ queue = <<>>
    /\ pc = "idle"
    /\ gen = NoGen
    /\ yields = <<>>
    /\ outcome = NoCall
    /\ ncalls = 0
    /\ xpc = "off"
    /\ pending = {}
    /\ rendered = <<>>
    /\ results = <<>>
    /\ ret = NoCall
    /\ render = NoRender
    /\ call = NoApply
    /\ args = NoArgs
    /\ composer = NewComposer
    /\ output = NoOutput

Next ==
    \/ Caller /\ UNCHANGED xvars
    \/ Engine /\ UNCHANGED xvars
    \/ Reader /\ UNCHANGED xvars

Spec == Init /\ [][Next]_vars

\* Spec with a caller that goes on iterating the generator it holds, a
\* timeout of queue.get that is finite, and a stop() whose waits end
SpecFair ==
    /\ Init
    /\ [][Next]_vars
    /\ WF_vars(CollectCheck /\ UNCHANGED xvars)
    /\ WF_vars(CollectGet /\ UNCHANGED xvars)
    /\ WF_vars(StopFinish /\ UNCHANGED xvars)

\* ------------------------------------------------- AppleOCR.extract_text
\* A faulty variant of page_data: w and h of the items change places.
page_data_w_h_swapped(result) ==
    [page_index |-> result.page_index,
     width |-> result.width,
     height |-> result.height,
     items |-> [k \in 1 .. Len(result.items) |->
                   [text |-> result.items[k].text,
                    x |-> result.items[k].x,
                    y |-> result.items[k].y,
                    w |-> result.items[k].h,
                    h |-> result.items[k].w,
                    confidence |-> result.items[k].confidence]]]

\* api.py lines 130-145: the record built from one OCRResult
page_data(result) ==
    [page_index |-> result.page_index,
     width |-> result.width,
     height |-> result.height,
     items |-> [k \in 1 .. Len(result.items) |->
                   [text |-> result.items[k].text,
                    x |-> result.items[k].x,
                    y |-> result.items[k].y,
                    w |-> result.items[k].w,
                    h |-> result.items[k].h,
                    confidence |-> result.items[k].confidence]]]

\* list.sort(key=lambda x: x["page_index"]): a stable insertion sort
RECURSIVE InsertByPageIndex(_, _)
InsertByPageIndex(sorted, x) ==
    IF sorted = <<>> THEN <<x>>
    ELSE IF x.page_index < Head(sorted).page_index THEN <<x>> \o sorted
    ELSE <<Head(sorted)>> \o InsertByPageIndex(Tail(sorted), x)

RECURSIVE SortFrom(_, _)
SortFrom(sorted, rest) ==
    IF rest = <<>> THEN sorted
    ELSE SortFrom(InsertByPageIndex(sorted, Head(rest)), Tail(rest))

\* A faulty variant of sort_results: the list stays in arrival order.
sort_results_arrival_order(list) == list

\* api.py line 149
sort_results(list) == SortFrom(<<>>, list)

\* an exception of the page source (render_pdf_stream)
RenderError == Exc("render_failed", "", <<>>, <<>>, <<>>)

\* api.py line 101: start() is called before the try block
XStart ==
    /\ xpc = "start"
    /\ \E exists \in BOOLEAN :
          /\ start(exists)
          /\ IF exists
             THEN xpc' = "render" /\ UNCHANGED ret
             ELSE xpc' = "done" /\ ret' = Raised("extract_text", ConfigurationError)
    /\ UNCHANGED <<queue, pc, gen, yields, ncalls, pending, rendered, results>>

\* A faulty variant of XSend: the page sent stays among the pages to come.
XSend_page_again ==
    /\ xpc = "render"
    /\ \E page \in pending, broken \in BOOLEAN :
          /\ pending' = pending
          /\ rendered' = Append(rendered, page)
          /\ send_image(page, broken)
    /\ IF outcome'.status = "raised"
       THEN xpc' = "finally" /\ ret' = Raised("extract_text", outcome'.value[1])
       ELSE UNCHANGED <<xpc, ret>>
    /\ UNCHANGED <<client, threads, queue, pc, gen, yields, ncalls, results>>

\* A faulty variant of XSend: a send failure leaves extract_text at once,
\* without the finally clause.
XSend_no_cleanup ==
    /\ xpc = "render"
    /\ \E page \in pending, broken \in BOOLEAN :
          /\ pending' = pending \ {page}
          /\ rendered' = Append(rendered, page)
          /\ send_image(page, broken)
    /\ IF outcome'.status = "raised"
       THEN xpc' = "done" /\ ret' = Raised("extract_text", outcome'.value[1])
       ELSE UNCHANGED <<xpc, ret>>
    /\ UNCHANGED <<client, threads, queue, pc, gen, yields, ncalls, results>>

\* api.py lines 106-120: the page source yields the next page, in completion
\* order; it is appended and sent
XSend ==
    /\ xpc = "render"
    /\ \E page \in pending, broken \in BOOLEAN :
          /\ pending' = pending \ {page}
          /\ rendered' = Append(rendered, page)
          /\ send_image(page, broken)
    /\ IF outcome'.status = "raised"
       THEN xpc' = "finally" /\ ret' = Raised("extract_text", outcome'.value[1])
       ELSE UNCHANGED <<xpc, ret>>
    /\ UNCHANGED <<client, threads, queue, pc, gen, yields, ncalls, results>>

\* pdf_to_images.py lines 218-224: a passthrough page without an embedded
\* image is passed over
XSkip ==
    /\ xpc = "render"
    /\ \E page \in pending : pending' = pending \ {page}
    /\ outcome' = NoCall
    /\ UNCHANGED <<client, procs, threads, queue, pc, gen, yields, ncalls,
                   xpc, rendered, results, ret>>

\* pdf_to_images.py line 238: fut.result() raises what the page's rendering
\* raised
XRenderFail ==
    /\ xpc = "render"
    /\ pending # {}
    /\ xpc' = "finally"
    /\ ret' = Raised("extract_text", RenderError)
    /\ outcome' = NoCall
    /\ UNCHANGED <<client, procs, threads, queue, pc, gen, yields, ncalls,
                   pending, rendered, results>>

\* api.py lines 122-129: the page source is exhausted
XRenderDone ==
    /\ xpc = "render"
    /\ pending = {}
    /\ IF rendered = <<>>
       THEN /\ xpc' = "finally"
            /\ ret' = [op |-> "extract_text", status |-> "returned", value |-> <<>>]
            /\ UNCHANGED <<gen, yields>>
       ELSE /\ collect_results(Len(rendered))
            /\ xpc' = "collect"
            /\ UNCHANGED ret
    /\ outcome' = NoCall
    /\ UNCHANGED <<client, procs, threads, queue, pc, ncalls,
                   pending, rendered, results>>

\* api.py lines 127-150: what the for loop does with one step of the generator
XConsume ==
    IF outcome'.op # "collect"
    THEN UNCHANGED <<xpc, results, ret>>
    ELSE IF outcome'.status = "yielded"
    THEN /\ results' = Append(results, page_data(outcome'.value[1]))
         /\ UNCHANGED <<xpc, ret>>
    ELSE IF outcome'.status = "raised"
    THEN /\ xpc' = "finally"
         /\ ret' = Raised("extract_text", outcome'.value[1])
         /\ UNCHANGED results
    ELSE /\ xpc' = "finally"
         /\ ret' = [op |-> "extract_text", status |-> "returned",
                    value |-> sort_results(results)]
         /\ UNCHANGED results

XCollectCheck ==
    /\ xpc = "collect"
    /\ pc = "idle"
    /\ collect_check
    /\ XConsume
    /\ UNCHANGED <<client, procs, threads, ncalls, pending, rendered>>

XCollectGet ==
    /\ xpc = "collect"
    /\ collect_get
    /\ XConsume
    /\ UNCHANGED <<client, procs, threads, ncalls, pending, rendered>>

\* api.py lines 152-153: finally: ocr_client.stop()
XStop ==
    /\ xpc = "finally"
    /\ pc = "idle"
    /\ stop_signal
    /\ xpc' = IF client.proc = NoProc THEN "done" ELSE "finally"
    /\ UNCHANGED <<client, threads, queue, gen, yields, ncalls,
                   pending, rendered, results, ret>>

XStopFinish ==
    /\ xpc = "finally"
    /\ stop_finish
    /\ xpc' = "done"
    /\ UNCHANGED <<threads, queue, gen, yields, ncalls,
                   pending, rendered, results, ret>>

ExtractText ==
    \/ XStart \/ XSend \/ XSkip \/ XRenderFail \/ XRenderDone
    \/ XCollectCheck \/ XCollectGet \/ XStop \/ XStopFinish

\* extract_text is called on a document whose page source will deliver some
\* set of pages
InitExtract ==
    /\ pipes = NoPipes
    /\ steps = <<>>
    /\ client = [proc |-> NoProc, out_thread |-> NoThread]
    /\ procs = <<>>
    /\ threads = <<>>
    /\ queue = <<>>
    /\ pc = "idle"
    /\ gen = NoGen
    /\ yields = <<>>
    /\ outcome = NoCall
    /\ ncalls = 0
    /\ xpc = "start"
    /\ pending \in SUBSET Pages
    /\ rendered = <<>>
    /\ results = <<>>
    /\ ret = NoCall
    /\ render = NoRender
    /\ call = NoApply
    /\ args = NoArgs
    /\ composer = NewComposer
    /\ output = NoOutput

NextExtract ==
    \/ ExtractText /\ UNCHANGED <<render, call, ovars, svars>>
    \/ Engine /\ UNCHANGED xvars
    \/ Reader /\ UNCHANGED xvars

SpecExtract == InitExtract /\ [][NextExtract]_vars

\* ------------------------------------------------------- page_parser.py
\* A page specification is a string; it is modelled by its parts, the pieces
\* between its commas with the blanks around them stripped: a blank part, a
\* page number (digits), a range (digits-digits), or anything else.  The
\* empty string and a string of blanks have the single part Blank.
\* most parts of a page specification, and the largest total_pages
MaxParts == 2
MaxTotal == 3

Blank == [kind |-> "blank"]
Page(n) == [kind |-> "page", n |-> n]
Range(lo, hi) == [kind |-> "range", lo |-> lo, hi |-> hi]
Other == [kind |-> "other"]

\* ValueError
ValueError == Exc("value_error", "", <<>>, <<>>, <<>>)

\* sorted_pages(list(page_set))
RECURSIVE sorted_pages(_)
sorted_pages(page_set) ==
    IF page_set = {} THEN <<>>
    ELSE LET least == CHOOSE q \in page_set : \A r \in page_set : q <= r
         IN <<least>> \o sorted_pages(page_set \ {least})

\* _validate_page_number does not raise
valid_page_number(page_num, total_pages) == page_num >= 1 /\ page_num <= total_pages

\* page_parser.py lines 40-78: the loop over the parts, from the first one
RECURSIVE parse_parts(_, _, _)
parse_parts(parts, page_set, total_pages) ==
    IF parts = <<>>
    THEN [status |-> "returned", value |-> sorted_pages(page_set)]
    ELSE LET part == Head(parts)
         IN CASE part.kind = "blank" ->
                    parse_parts(Tail(parts), page_set, total_pages)
              [] part.kind = "range" ->
                    IF \/ part.lo > part.hi
                       \/ ~valid_page_number(part.lo, total_pages)
                       \/ ~valid_page_number(part.hi, total_pages)
                    THEN [status |-> "raised", value |-> <<ValueError>>]
                    ELSE parse_parts(Tail(parts),
                                     page_set \cup ((part.lo - 1) .. (part.hi - 1)),
                                     total_pages)
              [] part.kind = "page" ->
                    IF ~valid_page_number(part.n, total_pages)
                    THEN [status |-> "raised", value |-> <<ValueError>>]
                    ELSE parse_parts(Tail(parts), page_set \cup {part.n - 1},
                                     total_pages)
              [] OTHER -> [status |-> "raised", value |-> <<ValueError>>]

\* PageRangeParser.parse_page_ranges / parse_pages
parse_pages(page_spec, total_pages) ==
    IF page_spec = <<Blank>>
    THEN [status |-> "returned", value |-> [i \in 1 .. total_pages |-> i - 1]]
    ELSE parse_parts(page_spec, {}, total_pages)

\* page_parser.py lines 115-118, 122-125: one range as it is written
range_text(first, last) == IF first = last THEN Page(first) ELSE Range(first, last)

\* page_parser.py lines 109-125: the loop over the rest of pages_1based
RECURSIVE format_from(_, _, _, _)
format_from(rest, first, last, ranges) ==
    IF rest = <<>> THEN Append(ranges, range_text(first, last))
    ELSE IF Head(rest) = last + 1
    THEN format_from(Tail(rest), first, Head(rest), ranges)
    ELSE format_from(Tail(rest), Head(rest), Head(rest),
                     Append(ranges, range_text(first, last)))

\* PageRangeParser.format_page_ranges / format_pages, for a list without
\* repetitions; "" is the string whose single part is blank
format_pages(pages) ==
    IF pages = <<>> THEN <<Blank>>
    ELSE LET pages_1based == sorted_pages({pages[i] + 1 : i \in 1 .. Len(pages)})
         IN format_from(Tail(pages_1based), Head(pages_1based),
                        Head(pages_1based), <<>>)

\* ------------------------------------------- overlay_builder.OverlayComposer
\* add_page_overlay lines 165-177: the reader is made on first use and the
\* overlay built for the page is stored under its page_index
add_page_overlay(c, page_index) ==
    [c EXCEPT !.readers = IF c.readers = 0 THEN 1 ELSE @,
              !.overlays = IF \E i \in 1 .. Len(c.overlays) : c.overlays[i] = page_index
                           THEN @ ELSE Append(@, page_index)]

\* the keys of self.overlays
overlay_keys(c) == {c.overlays[i] : i \in 1 .. Len(c.overlays)}

\* A faulty variant of write_final_pages: only the pages that have an
\* overlay are written, in the order their overlays were added.
write_final_pages_overlays_only(c) ==
    LET merged == [p \in Pages |->
                      IF p \in overlay_keys(c) THEN c.merged[p] + 1 ELSE c.merged[p]]
    IN [c EXCEPT !.readers = IF c.readers = 0 THEN 1 ELSE @,
                 !.merged = merged,
                 !.writer = @ \o [i \in 1 .. Len(c.overlays) |->
                                     [page |-> c.overlays[i],
                                      overlays |-> merged[c.overlays[i]]]]]

\* write_final lines 181-220: for each page of the document in order, the
\* overlay stored for it is merged into the reader's page object, and the
\* page is added to the writer
write_final_pages(c) ==
    LET merged == [p \in Pages |->
                      IF p \in overlay_keys(c) THEN c.merged[p] + 1 ELSE c.merged[p]]
    IN [c EXCEPT !.readers = IF c.readers = 0 THEN 1 ELSE @,
                 !.merged = merged,
                 !.writer = @ \o [i \in 1 .. MaxPages |->
                                     [page |-> i - 1, overlays |-> merged[i - 1]]]]

\* write_final line 229: open(self.output_pdf, "wb") creates the file, or
\* empties the one that is there
output_opened(f) == [f EXCEPT !.state = "partial", !.pages = <<>>]

\* write_final line 230: self.writer.write(f) has written everything
output_written(f, c) ==
    [f EXCEPT !.state = "complete", !.pages = c.writer, !.produced = @ + 1]

\* ------------------------------------------------- cli.process_one (swift)
\* an exception of OverlayComposer.add_page_overlay, of write_final
OverlayError == Exc("overlay_failed", "", <<>>, <<>>, <<>>)
WriteError == Exc("write_failed", "", <<>>, <<>>, <<>>)

\* sys.exit(1)
SystemExit == Exc("system_exit", "", <<1>>, <<>>, <<>>)

\* what --pages and --skip-pages are given as
CliPageSpecs ==
    {<<Page(n)>> : n \in 1 .. MaxPages} \cup {<<Range(1, MaxPages)>>, <<Other>>}
CliArgs ==
    {[cli |-> TRUE, pages |-> a, skip_pages |-> b] :
        a \in {NoArg} \cup {Arg(t) : t \in CliPageSpecs},
        b \in {NoArg} \cup {Arg(t) : t \in CliPageSpecs}}

\* the set of the pages in a list
page_set_of(list) == {list[i] : i \in 1 .. Len(list)}

\* cli.py lines 171-202: the pages selected, as the validation computes them;
\* raised when a specification is not valid and when no page is left
selected_pages_list(a, total_pages) ==
    IF ~a.pages.given /\ ~a.skip_pages.given
    THEN [status |-> "returned", value |-> [i \in 1 .. total_pages |-> i - 1]]
    ELSE LET parsed == IF a.pages.given
                       THEN parse_pages(a.pages.text, total_pages)
                       ELSE [status |-> "returned",
                             value |-> [i \in 1 .. total_pages |-> i - 1]]
             skipped == IF a.skip_pages.given
                        THEN parse_pages(a.skip_pages.text, total_pages)
                        ELSE [status |-> "returned", value |-> <<>>]
         IN IF parsed.status = "raised" \/ skipped.status = "raised"
            THEN [status |-> "raised", value |-> <<SystemExit>>]
            ELSE IF page_set_of(parsed.value) \ page_set_of(skipped.value) = {}
            THEN [status |-> "raised", value |-> <<SystemExit>>]
            ELSE [status |-> "returned",
                  value |-> sorted_pages(page_set_of(parsed.value)
                                      \ page_set_of(skipped.value))]

\* cli.py lines 330-334: the selected_pages handed to render_pdf_stream, and
\* pdf_to_images.py lines 187-190: the pages it renders
swift_pages(a, total_pages) ==
    IF a.pages.given
    THEN {q \in page_set_of(parse_pages(a.pages.text, total_pages).value) :
             0 <= q /\ q < total_pages}
    ELSE 0 .. (total_pages - 1)

\* cli.py lines 166-202: the page arguments are validated; process_one exits
\* when they are not valid or leave no page
PSelect ==
    /\ xpc = "p_select"
    /\ IF selected_pages_list(args, MaxPages).status = "raised"
       THEN /\ xpc' = "done"
            /\ ret' = Raised("process_one", SystemExit)
            /\ UNCHANGED pending
       ELSE /\ xpc' = "p_start"
            /\ pending' = swift_pages(args, MaxPages)
            /\ UNCHANGED ret
    /\ outcome' = NoCall
    /\ UNCHANGED <<client, procs, threads, queue, pc, gen, yields, ncalls,
                   rendered, results, ovars, svars>>

\* cli.py line 311: start() is called before the try block
PStart ==
    /\ xpc = "p_start"
    /\ \E exists \in BOOLEAN :
          /\ start(exists)
          /\ IF exists
             THEN xpc' = "p_render" /\ UNCHANGED ret
             ELSE xpc' = "done" /\ ret' = Raised("process_one", ConfigurationError)
    /\ UNCHANGED <<queue, pc, gen, yields, ncalls, pending, rendered, results, ovars, svars>>

\* cli.py lines 325-347: the page is appended and sent
PSend ==
    /\ xpc = "p_render"
    /\ \E page \in pending, broken \in BOOLEAN :
          /\ pending' = pending \ {page}
          /\ rendered' = Append(rendered, page)
          /\ send_image(page, broken)
    /\ IF outcome'.status = "raised"
       THEN xpc' = "finally" /\ ret' = Raised("process_one", outcome'.value[1])
       ELSE UNCHANGED <<xpc, ret>>
    /\ UNCHANGED <<client, threads, queue, pc, gen, yields, ncalls, results, ovars, svars>>

\* pdf_to_images.py lines 218-224
PSkip ==
    /\ xpc = "p_render"
    /\ \E page \in pending : pending' = pending \ {page}
    /\ outcome' = NoCall
    /\ UNCHANGED <<client, procs, threads, queue, pc, gen, yields, ncalls,
                   xpc, rendered, results, ret, ovars, svars>>

\* pdf_to_images.py line 238
PRenderFail ==
    /\ xpc = "p_render"
    /\ pending # {}
    /\ xpc' = "finally"
    /\ ret' = Raised("process_one", RenderError)
    /\ outcome' = NoCall
    /\ UNCHANGED <<client, procs, threads, queue, pc, gen, yields, ncalls,
                   pending, rendered, results, ovars, svars>>

\* cli.py lines 349-357: no page rendered: return; else create the generator
PRenderDone ==
    /\ xpc = "p_render"
    /\ pending = {}
    /\ IF rendered = <<>>
       THEN /\ xpc' = "finally"
            /\ ret' = Returned("process_one")
            /\ UNCHANGED <<gen, yields>>
       ELSE /\ collect_results(Len(rendered))
            /\ xpc' = "p_collect"
            /\ UNCHANGED ret
    /\ outcome' = NoCall
    /\ UNCHANGED <<client, procs, threads, queue, pc, ncalls,
                   pending, rendered, results, ovars, svars>>

\* cli.py lines 355-371: add_page_overlay for each result (it may raise);
\* when the generator has returned, write_final: it adds the pages to the
\* writer and opens the output file, unless reading or merging raises.
\* results holds the pages that got an overlay, in the order they got it.
PConsume ==
    IF outcome'.op # "collect"
    THEN UNCHANGED <<xpc, results, ret, composer, output>>
    ELSE IF outcome'.status = "yielded"
    THEN \/ /\ results' = Append(results, page_data(outcome'.value[1]))
            /\ composer' = add_page_overlay(composer, outcome'.value[1].page_index)
            /\ UNCHANGED <<xpc, ret, output>>
         \/ /\ xpc' = "finally"
            /\ ret' = Raised("process_one", OverlayError)
            /\ UNCHANGED <<results, composer, output>>
    ELSE IF outcome'.status = "raised"
    THEN /\ xpc' = "finally"
         /\ ret' = Raised("process_one", outcome'.value[1])
         /\ UNCHANGED <<results, composer, output>>
    ELSE \/ /\ xpc' = "p_write"
            /\ composer' = write_final_pages(composer)
            /\ output' = output_opened(output)
            /\ UNCHANGED <<results, ret>>
         \/ /\ xpc' = "finally"
            /\ ret' = Raised("process_one", WriteError)
            /\ UNCHANGED <<results, composer, output>>

\* overlay_builder.py line 230, cli.py lines 371-372: the writer writes the
\* document into the open file; when that raises, the file stays as far as
\* it was written
PWrite ==
    /\ xpc = "p_write"
    /\ xpc' = "finally"
    /\ \/ /\ output' = output_written(output, composer)
          /\ ret' = Returned("process_one")
       \/ /\ ret' = Raised("process_one", WriteError)
          /\ UNCHANGED output
    /\ outcome' = NoCall
    /\ UNCHANGED <<client, procs, threads, queue, pc, gen, yields, ncalls,
                   pending, rendered, results, args, svars, composer>>

PCollectCheck ==
    /\ xpc = "p_collect"
    /\ pc = "idle"
    /\ collect_check
    /\ PConsume
    /\ UNCHANGED <<client, procs, threads, ncalls, pending, rendered, args, svars>>

PCollectGet ==
    /\ xpc = "p_collect"
    /\ collect_get
    /\ PConsume
    /\ UNCHANGED <<client, procs, threads, ncalls, pending, rendered, args, svars>>

\* cli.py lines 373-374 are the finally clause: XStop, XStopFinish
ProcessOne ==
    \/ PSelect \/ PStart \/ PSend \/ PSkip \/ PRenderFail \/ PRenderDone
    \/ PCollectCheck \/ PCollectGet \/ PWrite

\* --------------------------------------- AppleOCR.extract_text_from_images
\* file names of the images handed in
Names == {"a.png", "b.png"}

\* api.py lines 219-232: indexed_images, the (idx, path) of every input path
\* that is a file, idx being its position in the input list
IndexedImageLists ==
    UNION {{l \in [1 .. n -> [idx : Pages, name : Names]] :
               \A i \in 1 .. (n - 1) : l[i].idx < l[i + 1].idx} : n \in 0 .. MaxPages}

\* api.py lines 262-267: the name of the image a result belongs to, or the
\* page_index itself when no image has that index
img_name(indexed_images, page_index) ==
    IF \E i \in 1 .. Len(indexed_images) : indexed_images[i].idx = page_index
    THEN indexed_images[CHOOSE i \in 1 .. Len(indexed_images) :
                            /\ indexed_images[i].idx = page_index
                            /\ \A j \in 1 .. (i - 1) :
                                  indexed_images[j].idx # page_index].name
    ELSE page_index

\* api.py lines 266-281: the record built from one result
image_data(indexed_images, res) ==
    LET name == img_name(indexed_images, res.page_index)
    IN [image |-> name, width |-> res.width, height |-> res.height,
        items |-> [k \in 1 .. Len(res.items) |->
                      [text |-> res.items[k].text,
                       x |-> res.items[k].x, y |-> res.items[k].y,
                       w |-> res.items[k].w, h |-> res.items[k].h,
                       confidence |-> res.items[k].confidence]]]

\* api.py lines 285-286: name_order maps a file name to the idx of the last
\* image with that name, and anything else to 0
name_order(indexed_images, image) ==
    LET at == {i \in 1 .. Len(indexed_images) : indexed_images[i].name = image}
    IN IF at = {} THEN 0
       ELSE indexed_images[CHOOSE i \in at : \A j \in at : j <= i].idx

RECURSIVE InsertByNameOrder(_, _, _)
InsertByNameOrder(indexed_images, sorted, x) ==
    IF sorted = <<>> THEN <<x>>
    ELSE IF name_order(indexed_images, x.image)
               < name_order(indexed_images, Head(sorted).image)
    THEN <<x>> \o sorted
    ELSE <<Head(sorted)>> \o InsertByNameOrder(indexed_images, Tail(sorted), x)

RECURSIVE SortImagesFrom(_, _, _)
SortImagesFrom(indexed_images, sorted, rest) ==
    IF rest = <<>> THEN sorted
    ELSE SortImagesFrom(indexed_images,
                        InsertByNameOrder(indexed_images, sorted, Head(rest)),
                        Tail(rest))

\* api.py line 286: a stable sort of the records by name_order of their image
sort_by_name_order(indexed_images, list) ==
    SortImagesFrom(indexed_images, <<>>, list)

\* api.py lines 234-245: nothing to do without images; else start(), before
\* the try block.  rendered holds indexed_images, pending the positions of
\* the images still to send.
IStart ==
    /\ xpc = "i_start"
    /\ IF rendered = <<>>
       THEN /\ xpc' = "done"
            /\ ret' = [op |-> "extract_text_from_images", status |-> "returned",
                       value |-> <<>>]
            /\ outcome' = NoCall
            /\ UNCHANGED <<client, procs, threads>>
       ELSE \E exists \in BOOLEAN :
               /\ start(exists)
               /\ IF exists
                  THEN xpc' = "i_send" /\ UNCHANGED ret
                  ELSE /\ xpc' = "done"
                       /\ ret' = Raised("extract_text_from_images", ConfigurationError)
    /\ UNCHANGED <<queue, pc, gen, yields, ncalls, pending, rendered, results>>

\* api.py lines 249-256: the images are sent in list order
ISend ==
    /\ xpc = "i_send"
    /\ pending # {}
    /\ LET i == CHOOSE i \in pending : \A j \in pending : i <= j
       IN /\ pending' = pending \ {i}
          /\ \E broken \in BOOLEAN : send_image(rendered[i].idx, broken)
    /\ IF outcome'.status = "raised"
       THEN /\ xpc' = "finally"
            /\ ret' = Raised("extract_text_from_images", outcome'.value[1])
       ELSE UNCHANGED <<xpc, ret>>
    /\ UNCHANGED <<client, threads, queue, pc, gen, yields, ncalls, rendered, results>>

\* api.py line 260: the generator is created
ISendDone ==
    /\ xpc = "i_send"
    /\ pending = {}
    /\ collect_results(Len(rendered))
    /\ xpc' = "i_collect"
    /\ outcome' = NoCall
    /\ UNCHANGED <<client, procs, threads, queue, pc, ncalls,
                   pending, rendered, results, ret>>

\* api.py lines 260-287
IConsume ==
    IF outcome'.op # "collect"
    THEN UNCHANGED <<xpc, results, ret>>
    ELSE IF outcome'.status = "yielded"
    THEN /\ results' = Append(results, image_data(rendered, outcome'.value[1]))
         /\ UNCHANGED <<xpc, ret>>
    ELSE IF outcome'.status = "raised"
    THEN /\ xpc' = "finally"
         /\ ret' = Raised("extract_text_from_images", outcome'.value[1])
         /\ UNCHANGED results
    ELSE /\ xpc' = "finally"
         /\ ret' = [op |-> "extract_text_from_images", status |-> "returned",
                    value |-> sort_by_name_order(rendered, results)]
         /\ UNCHANGED results

ICollectCheck ==
    /\ xpc = "i_collect"
    /\ pc = "idle"
    /\ collect_check
    /\ IConsume
    /\ UNCHANGED <<client, procs, threads, ncalls, pending, rendered>>

ICollectGet ==
    /\ xpc = "i_collect"
    /\ collect_get
    /\ IConsume
    /\ UNCHANGED <<client, procs, threads, ncalls, pending, rendered>>

\* api.py lines 288-289 are the finally clause: XStop, XStopFinish
ExtractTextFromImages ==
    \/ IStart \/ ISend \/ ISendDone \/ ICollectCheck \/ ICollectGet

\* ------------------------------------------- the three pipeline entry points
InitPipeline ==
    /\ pipes = NoPipes
    /\ steps = <<>>
    /\ client = [proc |-> NoProc, out_thread |-> NoThread]
    /\ procs = <<>>
    /\ threads = <<>>
    /\ queue = <<>>
    /\ pc = "idle"
    /\ gen = NoGen
    /\ yields = <<>>
    /\ outcome = NoCall
    /\ ncalls = 0
    /\ results = <<>>
    /\ ret = NoCall
    /\ render = NoRender
    /\ call = NoApply
    /\ composer = NewComposer
    /\ output = NoOutput
    /\ \/ /\ xpc = "start"
          /\ pending \in SUBSET Pages
          /\ rendered = <<>>
          /\ args = NoArgs
       \/ /\ xpc = "p_select"
          /\ pending = {}
          /\ rendered = <<>>
          /\ args \in CliArgs
       \/ /\ xpc = "i_start"
          /\ rendered \in IndexedImageLists
          /\ pending = 1 .. Len(rendered)
          /\ args = NoArgs

NextPipeline ==
    \/ ExtractText /\ UNCHANGED <<render, call, ovars, svars>>
    \/ ProcessOne /\ UNCHANGED <<render, call>>
    \/ ExtractTextFromImages /\ UNCHANGED <<render, call, ovars, svars>>
    \/ Engine /\ UNCHANGED xvars
    \/ Reader /\ UNCHANGED xvars

SpecPipeline == InitPipeline /\ [][NextPipeline]_vars

\* ------------------------------- one session of the client, pipes bounded
\* The client of Spec with what Spec leaves out: the pipes between the
\* caller and the subprocess hold a bounded number of lines, a write to a
\* full pipe waits, and stop() is followed step by step.
\* lines a pipe holds before a write to it waits
StdinCapacity == 1
StdoutCapacity == 1
StderrCapacity == 1

\* the variables of the pipelines, of the renderer and of the composer
qvars == <<gen, yields, xpc, pending, rendered, results, ret, render, call,
           args, composer, output>>

\* lines written to the input of process p that the engine has not read
InPipe(p) == Len(procs[p].stdin) - pipes.read

\* start(), once: Popen with stdin, stdout and stderr as pipes
SessionStart ==
    /\ pc = "idle"
    /\ procs = <<>>
    /\ start(TRUE)
    /\ ncalls' = ncalls + 1
    /\ pipes' = [read |-> 0, stderr |-> 0, engine |-> "running"]
    /\ UNCHANGED <<queue, pc, steps, qvars>>

\* send_image(): lines 115-120 as in send_image; the write and flush of lines
\* 136-137 wait while the pipe is full
SessionSend ==
    /\ pc = "idle"
    /\ ncalls < MaxCalls
    /\ IF /\ client.proc # NoProc
          /\ poll(client.proc) = <<>>
          /\ InPipe(client.proc) >= StdinCapacity
       THEN /\ pc' = "send_write"
            /\ outcome' = NoCall
            /\ UNCHANGED <<procs, ncalls>>
       ELSE /\ send_image(ncalls, FALSE)
            /\ ncalls' = IF outcome'.status = "returned" THEN ncalls + 1 ELSE ncalls
            /\ UNCHANGED pc
    /\ UNCHANGED <<client, threads, queue, pipes, steps, qvars>>

\* the waiting write of send_image ends: the engine has made room, or the
\* process has exited and the write raises BrokenPipeError (lines 139-140)
SessionSendResume ==
    /\ pc = "send_write"
    /\ pc' = "idle"
    /\ IF poll(client.proc) # <<>>
       THEN /\ outcome' = Raised("send_image", SendFailedError)
            /\ UNCHANGED <<procs, ncalls>>
       ELSE /\ InPipe(client.proc) < StdinCapacity
            /\ send_image(ncalls, FALSE)
            /\ ncalls' = ncalls + 1
    /\ UNCHANGED <<client, threads, queue, pipes, steps, qvars>>

\* stop(), lines 72-73: nothing to do without a process
stop_begin ==
    /\ pc = "idle"
    /\ IF client.proc = NoProc
       THEN /\ outcome' = Returned("stop")
            /\ UNCHANGED <<pc, steps>>
       ELSE /\ pc' = "s_write"
            /\ steps' = <<>>
            /\ outcome' = NoCall
    /\ UNCHANGED <<client, procs, threads, queue, ncalls, pipes, qvars>>

\* lines 76-79: write and flush the stop line.  On an exited process the write
\* raises; the exception is swallowed (lines 81-82) and line 80 is not run.
\* On a full pipe the write waits.
stop_write ==
    /\ pc = "s_write"
    /\ IF poll(client.proc) # <<>>
       THEN /\ pc' = "s_join"
            /\ UNCHANGED <<procs, steps>>
       ELSE /\ InPipe(client.proc) < StdinCapacity
            /\ procs' = [procs EXCEPT ![client.proc].stdin = Append(@, StopLine)]
            /\ steps' = Append(steps, "write_stop")
            /\ pc' = "s_close_stdin"
    /\ outcome' = NoCall
    /\ UNCHANGED <<client, threads, queue, ncalls, pipes, qvars>>

\* line 80
stop_close_stdin ==
    /\ pc = "s_close_stdin"
    /\ procs' = [procs EXCEPT ![client.proc].stdin_closed = TRUE]
    /\ steps' = Append(steps, "close_stdin")
    /\ pc' = "s_join"
    /\ outcome' = NoCall
    /\ UNCHANGED <<client, threads, queue, ncalls, pipes, qvars>>

\* lines 85-87: a reader that is alive is joined for at most a second; what
\* the reader and the engine do meanwhile are their own steps
stop_join ==
    /\ pc = "s_join"
    /\ steps' = IF client.out_thread # NoThread /\ thread_alive(client.out_thread)
                THEN Append(steps, "join_reader")
                ELSE steps
    /\ pc' = "s_terminate"
    /\ outcome' = NoCall
    /\ UNCHANGED <<client, procs, threads, queue, ncalls, pipes, qvars>>

\* A faulty variant of stop_terminate: the process is killed at once.
stop_terminate_kills_at_once ==
    /\ pc = "s_terminate"
    /\ procs' = [procs EXCEPT ![client.proc].returncode =
                                  IF @ # <<>> THEN @ ELSE << -9 >>]
    /\ steps' = steps \o <<"kill", "wait">>
    /\ pc' = "s_close_out"
    /\ outcome' = NoCall
    /\ UNCHANGED <<client, threads, queue, ncalls, pipes, qvars>>

\* line 91: proc.terminate() asks the process to end
stop_terminate ==
    /\ pc = "s_terminate"
    /\ steps' = Append(steps, "terminate")
    /\ pc' = "s_wait"
    /\ outcome' = NoCall
    /\ UNCHANGED <<client, procs, threads, queue, ncalls, pipes, qvars>>

\* lines 92-95: proc.wait(timeout=5) returns when the process has ended, by
\* itself or by the signal; it raises TimeoutExpired when the process has not
\* ended within the five seconds
stop_wait(timeout) ==
    /\ pc = "s_wait"
    /\ IF poll(client.proc) # <<>>
       THEN /\ steps' = Append(steps, "wait")
            /\ pc' = "s_close_out"
            /\ UNCHANGED procs
       ELSE IF timeout
       THEN /\ steps' = Append(steps, "wait_timeout")
            /\ pc' = "s_kill"
            /\ UNCHANGED procs
       ELSE /\ procs' = [procs EXCEPT ![client.proc].returncode = << -15 >>]
            /\ steps' = Append(steps, "wait")
            /\ pc' = "s_close_out"
    /\ outcome' = NoCall
    /\ UNCHANGED <<client, threads, queue, ncalls, pipes, qvars>>

\* lines 96-97: proc.kill(), proc.wait()
stop_kill ==
    /\ pc = "s_kill"
    /\ procs' = [procs EXCEPT ![client.proc].returncode =
                                  IF @ # <<>> THEN @ ELSE << -9 >>]
    /\ steps' = steps \o <<"kill", "wait">>
    /\ pc' = "s_close_out"
    /\ outcome' = NoCall
    /\ UNCHANGED <<client, threads, queue, ncalls, pipes, qvars>>

\* lines 102-106: close stdout, then stderr; what they held is gone
stop_close_streams ==
    /\ pc = "s_close_out"
    /\ procs' = [procs EXCEPT ![client.proc].stdout = <<>>,
                              ![client.proc].stdout_closed = TRUE,
                              ![client.proc].stderr_closed = TRUE]
    /\ steps' = steps \o <<"close_stdout", "close_stderr">>
    /\ pc' = "s_clear"
    /\ outcome' = NoCall
    /\ UNCHANGED <<client, threads, queue, ncalls, pipes, qvars>>

\* lines 110-112
stop_clear ==
    /\ pc = "s_clear"
    /\ client' = [proc |-> NoProc, out_thread |-> NoThread]
    /\ steps' = Append(steps, "clear_handle")
    /\ pc' = "idle"
    /\ outcome' = Returned("stop")
    /\ UNCHANGED <<procs, threads, queue, ncalls, pipes, qvars>>

SessionStop ==
    \/ stop_begin \/ stop_write \/ stop_close_stdin \/ stop_join
    \/ stop_terminate \/ \E timeout \in BOOLEAN : stop_wait(timeout)
    \/ stop_kill \/ stop_close_streams \/ stop_clear

\* the engine, neither ended nor waiting in a write, takes a line from its
\* input
SessionEngineRead(p) ==
    /\ poll(p) = <<>>
    /\ pipes.engine = "running"
    /\ InPipe(p) > 0
    /\ pipes' = [pipes EXCEPT !.read = @ + 1]
    /\ outcome' = NoCall
    /\ UNCHANGED <<client, procs, threads, queue, pc, ncalls, steps, qvars>>

\* the engine answers a job it has read; the write waits while its output
\* pipe is full
SessionEngineRespond(p) ==
    /\ pipes.engine = "running"
    /\ Len(procs[p].stdout) < StdoutCapacity
    /\ \E k \in Unanswered(p) :
          /\ k <= pipes.read
          /\ \E line \in ResponseLines(procs[p].stdin[k].page_index) :
                EngineRespond(p, k, line)
    /\ UNCHANGED <<pipes, steps, qvars>>

\* the engine writes a line of diagnostics to its error output, which is a
\* pipe that nothing reads: once the pipe is full the engine waits in the
\* write
SessionEngineLog(p) ==
    /\ poll(p) = <<>>
    /\ pipes.engine = "running"
    /\ pipes' = IF pipes.stderr < StderrCapacity
                THEN [pipes EXCEPT !.stderr = @ + 1]
                ELSE [pipes EXCEPT !.engine = "blocked"]
    /\ outcome' = NoCall
    /\ UNCHANGED <<client, procs, threads, queue, pc, ncalls, steps, qvars>>

\* the engine exits by itself
SessionEngineExit(p) ==
    /\ pipes.engine = "running"
    /\ \E code \in ExitCodes : EngineExit(p, code)
    /\ UNCHANGED <<pipes, steps, qvars>>

SessionEngine ==
    \E p \in 1 .. Len(procs) :
        \/ SessionEngineRead(p) \/ SessionEngineRespond(p)
        \/ SessionEngineLog(p) \/ SessionEngineExit(p)

SessionReader == Reader /\ UNCHANGED <<pipes, steps, qvars>>

NextSession ==
    \/ SessionStart
    \/ SessionSend
    \/ SessionSendResume
    \/ SessionStop
    \/ SessionEngine
    \/ SessionReader

SpecSession == Init /\ [][NextSession]_vars

\* -------------------------------------- one OverlayComposer, called freely
\* write_final calls made on the composer
MaxWrites == 2

\* add_page_overlay(pdf_path, page_index, ...) for a page of the document
ComposerAdd ==
    /\ xpc = "c_idle"
    /\ \E page_index \in Pages :
          composer' = add_page_overlay(composer, page_index)
    /\ ret' = Returned("add_page_overlay")
    /\ UNCHANGED <<cvars, xpc, pending, rendered, results, render, call, args, svars, output>>

\* write_final(original_pdf) up to line 229: the pages are merged and added
\* to the writer and the output file is opened
ComposerWriteFinal ==
    /\ xpc = "c_idle"
    /\ Len(composer.writer) < MaxWrites * MaxPages
    /\ composer' = write_final_pages(composer)
    /\ output' = output_opened(output)
    /\ xpc' = "c_write"
    /\ ret' = NoCall
    /\ UNCHANGED <<cvars, pending, rendered, results, render, call, args, svars>>

\* write_final line 230: the document is written, or the write raises
ComposerWritten ==
    /\ xpc = "c_write"
    /\ xpc' = "c_idle"
    /\ \/ /\ output' = output_written(output, composer)
          /\ ret' = Returned("write_final")
       \/ /\ ret' = Raised("write_final", WriteError)
          /\ UNCHANGED output
    /\ UNCHANGED <<cvars, pending, rendered, results, render, call, args, svars, composer>>

InitCompose ==
    /\ pipes = NoPipes
    /\ steps = <<>>
    /\ client = [proc |-> NoProc, out_thread |-> NoThread]
    /\ procs = <<>>
    /\ threads = <<>>
    /\ queue = <<>>
    /\ pc = "idle"
    /\ gen = NoGen
    /\ yields = <<>>
    /\ outcome = NoCall
    /\ ncalls = 0
    /\ xpc = "c_idle"
    /\ pending = {}
    /\ rendered = <<>>
    /\ results = <<>>
    /\ ret = NoCall
    /\ render = NoRender
    /\ call = NoApply
    /\ args = NoArgs
    /\ composer = NewComposer
    /\ output = NoOutput

NextCompose == ComposerAdd \/ ComposerWriteFinal \/ ComposerWritten

SpecCompose == InitCompose /\ [][NextCompose]_vars

\* ------------------------------------------ pdf_to_images.render_pdf_stream
\* everything but the run of render_pdf_stream and the function application
pvars == <<client, procs, threads, queue, pc, gen, yields, outcome, ncalls,
           xpc, pending, rendered, results, ret, args, composer, output,
           pipes, steps>>

\* RuntimeError("无法获取PDF页数")
NoPagesError == Exc("no_pages", "", <<>>, <<>>, <<>>)

\* page numbers a caller may put into selected_pages: in range and out of it
SelectablePages == -1 .. MaxPages

\* selected_pages: None, or a list
SelectedLists ==
    UNION {[1 .. n -> SelectablePages] : n \in 0 .. MaxSelected}
NoSelection == [given |-> FALSE, list |-> <<>>]
Selection(list) == [given |-> TRUE, list |-> list]

\* lines 186-193: pages_to_render
pages_to_render(selected_pages, total_pages) ==
    IF ~selected_pages.given
    THEN [i \in 1 .. total_pages |-> i - 1]
    ELSE SelectSeq(selected_pages.list, LAMBDA q : 0 <= q /\ q < total_pages)

\* A call of render_pdf_stream(pdf_path, dpi, workers, selected_pages) on a
\* document of total_pages pages.  bad: the pages whose worker delivers no
\* image: in passthrough mode _extract_embedded_images returns None for them
\* (no embedded image, or the extraction failed), in rasterization mode
\* _render_one_page raises.
RenderCall(dpi, total_pages, selected_pages, bad) ==
    [at |-> "called", dpi |-> dpi, total_pages |-> total_pages,
     selected_pages |-> selected_pages, bad |-> bad,
     futures |-> <<>>, waiting |-> {}, yielded |-> <<>>, error |-> <<>>]

\* lines 180-208, 225-236: page count, pages_to_render, one future per entry
RenderBegin ==
    /\ render.at = "called"
    /\ IF render.total_pages = 0
       THEN render' = [render EXCEPT !.at = "raised", !.error = <<NoPagesError>>]
       ELSE LET ptr == pages_to_render(render.selected_pages, render.total_pages)
            IN IF ptr = <<>>
               THEN render' = [render EXCEPT !.at = "returned"]
               ELSE render' = [render EXCEPT !.at = "running",
                                             !.futures = ptr,
                                             !.waiting = 1 .. Len(ptr)]
    /\ UNCHANGED <<pvars, call>>

\* A faulty variant of RenderPassthrough: a page without image ends the loop.
RenderPassthrough_ends_at_none ==
    /\ render.at = "running"
    /\ render.dpi = 0
    /\ \E f \in render.waiting :
          IF render.futures[f] \in render.bad
          THEN render' = [render EXCEPT !.at = "returned", !.waiting = @ \ {f}]
          ELSE render' = [render EXCEPT !.waiting = @ \ {f},
                                        !.yielded = Append(@, render.futures[f])]
    /\ UNCHANGED <<pvars, call>>

\* lines 209-224: as_completed hands over the next future that is done, in
\* completion order; its PageImage is yielded, None is passed over
RenderPassthrough ==
    /\ render.at = "running"
    /\ render.dpi = 0
    /\ \E f \in render.waiting :
          render' = [render EXCEPT
                        !.waiting = @ \ {f},
                        !.yielded = IF render.futures[f] \in render.bad
                                    THEN @
                                    ELSE Append(@, render.futures[f])]
    /\ UNCHANGED <<pvars, call>>

\* lines 237-243: fut.result() returns the PageImage, which is yielded, or
\* raises what _render_one_page raised: the exception leaves the generator
RenderRaster ==
    /\ render.at = "running"
    /\ render.dpi > 0
    /\ \E f \in render.waiting :
          IF render.futures[f] \in render.bad
          THEN render' = [render EXCEPT !.at = "raised",
                                        !.waiting = @ \ {f},
                                        !.error = <<RenderError>>]
          ELSE render' = [render EXCEPT !.waiting = @ \ {f},
                                        !.yielded = Append(@, render.futures[f])]
    /\ UNCHANGED <<pvars, call>>

\* every future was handed over: the generator returns
RenderEnd ==
    /\ render.at = "running"
    /\ render.waiting = {}
    /\ render' = [render EXCEPT !.at = "returned"]
    /\ UNCHANGED <<pvars, call>>

\* dpi values: 0 stands for None or 0 (passthrough)
DpiValues == {0, 300}

InitRender ==
    /\ pipes = NoPipes
    /\ steps = <<>>
    /\ client = [proc |-> NoProc, out_thread |-> NoThread]
    /\ procs = <<>>
    /\ threads = <<>>
    /\ queue = <<>>
    /\ pc = "idle"
    /\ gen = NoGen
    /\ yields = <<>>
    /\ outcome = NoCall
    /\ ncalls = 0
    /\ xpc = "off"
    /\ pending = {}
    /\ rendered = <<>>
    /\ results = <<>>
    /\ ret = NoCall
    /\ call = NoApply
    /\ args = NoArgs
    /\ composer = NewComposer
    /\ output = NoOutput
    /\ \E dpi \in DpiValues, total_pages \in 0 .. MaxPages,
          selected_pages \in {Selection(l) : l \in SelectedLists} \cup {NoSelection},
          bad \in SUBSET Pages :
          render = RenderCall(dpi, total_pages, selected_pages, bad)

NextRender == RenderBegin \/ RenderPassthrough \/ RenderRaster \/ RenderEnd

SpecRender == InitRender /\ [][NextRender]_vars

\* ------------------------------------------------- overlay_builder.py
\* Floating-point numbers are modelled as exact fractions num/den, den > 0,
\* in lowest terms.
RECURSIVE GCD(_, _)
GCD(a, b) == IF b = 0 THEN a ELSE GCD(b, a % b)

Abs(a) == IF a < 0 THEN -a ELSE a

Rat(n, d) ==
    LET g == GCD(Abs(n), d)
    IN [num |-> n \div g, den |-> d \div g]

RatMul(p, q) == Rat(p.num * q.num, p.den * q.den)

\* A faulty variant of norm_to_points: y is scaled by the width.
norm_to_points_y_by_width(x, y, w, h, width_px, height_px, dpi) ==
    LET scale == IF dpi = <<>> \/ dpi = <<0>> THEN Rat(1, 1) ELSE Rat(72, dpi[1])
    IN <<RatMul(RatMul(x, Rat(width_px, 1)), scale),
         RatMul(RatMul(y, Rat(width_px, 1)), scale),
         RatMul(RatMul(w, Rat(width_px, 1)), scale),
         RatMul(RatMul(h, Rat(height_px, 1)), scale)>>

\* OverlayComposer._norm_to_points; dpi is <<>> for None, <<d>> for d
norm_to_points(x, y, w, h, width_px, height_px, dpi) ==
    LET x_px == RatMul(x, Rat(width_px, 1))
        y_px == RatMul(y, Rat(height_px, 1))
        w_px == RatMul(w, Rat(width_px, 1))
        h_px == RatMul(h, Rat(height_px, 1))
        scale == IF dpi = <<>> \/ dpi = <<0>> THEN Rat(1, 1) ELSE Rat(72, dpi[1])
    IN <<RatMul(x_px, scale), RatMul(y_px, scale),
         RatMul(w_px, scale), RatMul(h_px, scale)>>

\* pypdf Transformation: the matrix (a, b, c, d, e, f) maps (x, y) to
\* (a x + c y + e, b x + d y + f).  Angles are multiples of 90 degrees.
Identity == <<1, 0, 0, 1, 0, 0>>

Cos90(deg) ==
    LET r == deg % 360
    IN IF r = 0 THEN 1 ELSE IF r = 180 THEN -1 ELSE 0

Sin90(deg) ==
    LET r == deg % 360
    IN IF r = 90 THEN 1 ELSE IF r = 270 THEN -1 ELSE 0

\* the transformation m followed by the transformation n
Then(m, n) ==
    <<m[1] * n[1] + m[2] * n[3],
      m[1] * n[2] + m[2] * n[4],
      m[3] * n[1] + m[4] * n[3],
      m[3] * n[2] + m[4] * n[4],
      m[5] * n[1] + m[6] * n[3] + n[5],
      m[5] * n[2] + m[6] * n[4] + n[6]>>

\* Transformation.rotate (counterclockwise), Transformation.translate
rotate(m, deg) ==
    Then(m, <<Cos90(deg), Sin90(deg), -Sin90(deg), Cos90(deg), 0, 0>>)
translate(m, tx, ty) == Then(m, <<1, 0, 0, 1, tx, ty>>)

apply_on(m, pt) ==
    <<m[1] * pt[1] + m[3] * pt[2] + m[5], m[2] * pt[1] + m[4] * pt[2] + m[6]>>

\* write_final lines 191-204: the transformation applied to the overlay of a
\* page of mediabox w x h and rotation rotation
overlay_transformation(rotation, w, h) ==
    IF rotation = 90 THEN translate(rotate(Identity, -90), 0, h)
    ELSE IF rotation = 180 THEN translate(rotate(Identity, -180), w, h)
    ELSE IF rotation = 270 THEN translate(rotate(Identity, -270), w, 0)
    ELSE Identity

\* add_page_overlay lines 169-175 with _build_overlay_page line 90: the
\* overlay page has the size portrait((mediabox width, mediabox height))
overlay_pagesize(w, h) == IF w <= h THEN <<w, h>> ELSE <<h, w>>

overlay_corners(w, h) ==
    LET size == overlay_pagesize(w, h)
    IN {<<0, 0>>, <<size[1], 0>>, <<0, size[2]>>, <<size[1], size[2]>>}

\* How a viewer shows a page of mediabox w x h whose /Rotate is rotation:
\* the page is turned clockwise by that angle.  displayed_size is the size of
\* what is shown (and of the image rendered from the page); page_display is
\* where the point pt of the page's own coordinates is shown, both with the
\* origin at the bottom left.
displayed_size(rotation, w, h) ==
    IF rotation \in {90, 270} THEN <<h, w>> ELSE <<w, h>>

page_display(rotation, w, h, pt) ==
    IF rotation = 90 THEN <<pt[2], w - pt[1]>>
    ELSE IF rotation = 180 THEN <<w - pt[1], h - pt[2]>>
    ELSE IF rotation = 270 THEN <<h - pt[2], pt[1]>>
    ELSE pt

\* ------------------------------------------- applications of pure functions
NormValues == {Rat(0, 1), Rat(1, 10), Rat(1, 5), Rat(1, 2), Rat(1, 1)}
PixelSizes == {1000, 2480}
DpiArguments == {<<>>, <<0>>, <<72>>, <<300>>}
PageSizes == {<<612, 792>>, <<792, 612>>, <<595, 842>>}
Rotations == {0, 90, 180, 270}

\* the parts tried: blank, not a number, every page number from 0, every
\* range in order from 1, and one range in reverse
Parts ==
    {Blank, Other, Range(2, 1)} \cup {Page(n) : n \in 0 .. MaxTotal}
        \cup UNION {{Range(lo, hi) : hi \in lo .. MaxTotal} : lo \in 1 .. MaxTotal}
PageSpecs == UNION {[1 .. n -> Parts] : n \in 1 .. MaxParts}

Applications ==
    {[fn |-> "norm_to_points", status |-> "called",
      args |-> <<x, y, w, h, width_px, height_px, dpi>>, result |-> <<>>] :
        x \in NormValues, y \in NormValues, w \in NormValues, h \in NormValues,
        width_px \in PixelSizes, height_px \in PixelSizes, dpi \in DpiArguments}
    \cup
    {[fn |-> "overlay_transformation", status |-> "called",
      args |-> <<rotation, size[1], size[2]>>, result |-> <<>>] :
        rotation \in Rotations, size \in PageSizes}
    \cup
    {[fn |-> "parse_pages", status |-> "called",
      args |-> <<page_spec, total_pages>>, result |-> <<>>] :
        page_spec \in PageSpecs, total_pages \in 0 .. MaxTotal}

ApplyNormToPoints ==
    /\ call.fn = "norm_to_points"
    /\ call.status = "called"
    /\ LET a == call.args
       IN call' = [call EXCEPT !.status = "returned",
                               !.result = norm_to_points(a[1], a[2], a[3], a[4],
                                                         a[5], a[6], a[7])]
    /\ UNCHANGED <<pvars, render>>

\* write_final transforms the overlay of a page: the result is the
\* transformation and where it puts the overlay's corners
ApplyOverlayTransformation ==
    /\ call.fn = "overlay_transformation"
    /\ call.status = "called"
    /\ LET a == call.args
           t == overlay_transformation(a[1], a[2], a[3])
       IN call' = [call EXCEPT
                      !.status = "returned",
                      !.result = [trans |-> t,
                                  corners |-> {apply_on(t, c) :
                                                  c \in overlay_corners(a[2], a[3])}]]
    /\ UNCHANGED <<pvars, render>>

\* parse_pages, and for a specification it accepts format_pages of the list
\* and parse_pages of that text (test_round_trip)
ApplyParsePages ==
    /\ call.fn = "parse_pages"
    /\ call.status = "called"
    /\ LET page_spec == call.args[1]
           total_pages == call.args[2]
           parsed == parse_pages(page_spec, total_pages)
       IN call' = [call EXCEPT
                      !.status = "returned",
                      !.result =
                          IF parsed.status = "raised"
                          THEN [parsed |-> parsed]
                          ELSE [parsed |-> parsed,
                                formatted |-> format_pages(parsed.value),
                                reparsed |-> parse_pages(format_pages(parsed.value),
                                                         total_pages)]]
    /\ UNCHANGED <<pvars, render>>

InitApply ==
    /\ pipes = NoPipes
    /\ steps = <<>>
    /\ client = [proc |-> NoProc, out_thread |-> NoThread]
    /\ procs = <<>>
    /\ threads = <<>>
    /\ queue = <<>>
    /\ pc = "idle"
    /\ gen = NoGen
    /\ yields = <<>>
    /\ outcome = NoCall
    /\ ncalls = 0
    /\ xpc = "off"
    /\ pending = {}
    /\ rendered = <<>>
    /\ results = <<>>
    /\ ret = NoCall
    /\ render = NoRender
    /\ args = NoArgs
    /\ composer = NewComposer
    /\ output = NoOutput
    /\ call \in Applications

NextApply == ApplyNormToPoints \/ ApplyOverlayTransformation \/ ApplyParsePages

SpecApply == InitApply /\ [][NextApply]_vars

\* ================================================================ properties
\* Shorthands for the step the caller has just taken
CollectEnded(status) == outcome.op = "collect" /\ outcome.status = status
CollectRaised(cls) == CollectEnded("raised") /\ outcome.value[1].cls = cls

\* C1: one call of collect_results(N) yields at most N results.  While the
\* generator runs it has yielded no more than N; when it stops normally it
\* has yielded exactly N; when it raises it has yielded fewer than N.
C1_CollectYieldsAtMostExpected ==
    /\ gen.active =>
          /\ gen.collected = Len(yields)
          /\ Len(yields) <= gen.expected
    /\ outcome.op = "collect" =>
          /\ Len(outcome.yielded) <= outcome.expected
          /\ \A i \in 1 .. Len(outcome.yielded) : outcome.yielded[i].kind = "result"
    /\ CollectEnded("returned") => Len(outcome.yielded) = outcome.expected
    /\ CollectEnded("raised") => Len(outcome.yielded) < outcome.expected

\* C1 happens: collect_results(1) has yielded its one result and stopped
\* while another result waits in the queue.
C1_StoppedWithResultQueued ==
    /\ CollectEnded("returned")
    /\ outcome.expected = 1
    /\ Len(outcome.yielded) = 1
    /\ queue # <<>>
    /\ Head(queue).kind = "result"

\* C2: the list extract_text returns is sorted ascending by page_index,
\* whatever the order in which the jobs were sent and the results arrived.
C2_ReturnedListSorted ==
    (xpc \in {"finally", "done"} /\ ret.status = "returned") =>
        \A i, j \in 1 .. Len(ret.value) :
            i < j => ret.value[i].page_index < ret.value[j].page_index

\* C2 happens: extract_text has returned two records whose results arrived
\* in descending page order.
C2_ResultsArrivedOutOfOrder ==
    /\ xpc = "done"
    /\ ret.status = "returned"
    /\ Len(ret.value) = 2
    /\ Len(results) = 2
    /\ results[1].page_index > results[2].page_index

\* C3 (as the claim words it): stop() never raises, and once stop() has
\* returned on a started client every later send_image and every later
\* collect_results(N), N > 0, ends with a process-unavailable error: nothing
\* is yielded and the caller does not wait in the queue.
C3_CallsAfterStopAreRefused ==
    /\ outcome.op = "stop" => outcome.status = "returned"
    /\ Stopped =>
          /\ pc # "collect_get"
          /\ outcome.op = "send_image" =>
                /\ outcome.status = "raised"
                /\ ProcessUnavailable(outcome.value[1])
          /\ (outcome.op = "collect" /\ outcome.expected > 0) =>
                /\ outcome.status = "raised"
                /\ ProcessUnavailable(outcome.value[1])

\* C4 (as the claim words it): the process-exited error collect_results
\* raises reports how many results the call has yielded.
C4_ExitedErrorReportsCollected ==
    CollectRaised("process_exited") =>
        outcome.value[1].collected = <<Len(outcome.yielded)>>

\* C4 (amended): the process-exited error collect_results raises reports the
\* exit code of the subprocess and no count; it is raised by the liveness
\* check of a loop turn, with a process handle held and the process exited,
\* after fewer results than expected were yielded.
C4_ExitedErrorReportsExitCode ==
    CollectRaised("process_exited") =>
        /\ client.proc # NoProc
        /\ poll(client.proc) # <<>>
        /\ outcome.value[1].code = poll(client.proc)
        /\ outcome.value[1].collected = <<>>
        /\ outcome.value[1].expected = <<>>
        /\ Len(outcome.yielded) < outcome.expected

\* C4 happens: the process exited after 1 of 3 expected results was yielded
\* and collect_results(3) raised the process-exited error.
C4_ExitedAfterOneOfThree ==
    /\ CollectRaised("process_exited")
    /\ outcome.expected = 3
    /\ Len(outcome.yielded) = 1

\* the page_index of every job written to a subprocess's stdin, in order
JobsSent(p) ==
    LET jobs == SelectSeq(procs[p].stdin, LAMBDA l : l.cmd = "ocr")
    IN [i \in 1 .. Len(jobs) |-> jobs[i].page_index]

\* C5: extract_text is all-or-nothing.  The jobs it sent are the pages it
\* rendered; it ends by returning or by raising; a returned list holds
\* exactly one record for each job sent, and whenever the collection failed
\* after some results were received the call raises.
C5_ExtractAllOrNothing ==
    /\ xpc = "collect" => JobsSent(client.proc) = rendered
    /\ xpc \in {"finally", "done"} =>
          /\ ret.op = "extract_text"
          /\ ret.status \in {"returned", "raised"}
          /\ ret.status = "raised" => ret.value[1].kind = "exception"
          /\ ret.status = "returned" =>
                /\ Len(ret.value) = Len(rendered)
                /\ \A i \in 1 .. Len(rendered) :
                      Cardinality({j \in 1 .. Len(ret.value) :
                                      ret.value[j].page_index = rendered[i]}) = 1
          /\ Len(results) < Len(rendered) => ret.status = "raised"

\* C5 happens: extract_text sent two jobs, received one result, and raised.
C5_FailedAfterOneResult ==
    /\ xpc = "done"
    /\ Len(rendered) = 2
    /\ Len(results) = 1
    /\ ret.status = "raised"
    /\ ret.value[1].cls \in {"process_exited", "engine_error", "json_error",
                             "timeout", "unexpected_exit"}

\* C6: every send_image call made without a process handle or on an exited
\* process raises a process-unavailable error; every send_image call that
\* raises raises a process-unavailable error and writes nothing; a call that
\* returns has written its one job line to the running process.
C6_SendRefusedWithoutWriting ==
    [][outcome'.op = "send_image" =>
          /\ (client.proc = NoProc \/ ~is_alive) => outcome'.status = "raised"
          /\ client.proc = NoProc => outcome'.value = <<NotStartedError>>
          /\ outcome'.status = "raised" =>
                /\ ProcessUnavailable(outcome'.value[1])
                /\ procs' = procs
          /\ outcome'.status = "returned" =>
                /\ is_alive
                /\ Len(procs'[client.proc].stdin) = Len(procs[client.proc].stdin) + 1
    ]_vars

\* C6 happens: send_image was called on a client whose process has exited,
\* and raised the process-exited error.
C6_SendToExitedProcess ==
    /\ outcome.op = "send_image"
    /\ outcome.status = "raised"
    /\ outcome.value[1].cls = "process_exited"
    /\ client.proc # NoProc
    /\ outcome.value[1].code = poll(client.proc)

\* C7: a start() that raises raises the configuration error and changes
\* nothing: no process, no reader thread, no handle.  A client that never
\* launched a process holds no handle and no thread, and its send_image
\* raises the not-started error.
C7_FailedStartLeavesNotStarted ==
    /\ [][(outcome'.op = "start" /\ outcome'.status = "raised") =>
             /\ outcome'.value = <<ConfigurationError>>
             /\ UNCHANGED <<client, procs, threads, queue>>]_vars
    /\ [](NotStarted =>
             /\ client.out_thread = NoThread
             /\ threads = <<>>
             /\ outcome.op = "send_image" =>
                   outcome = Raised("send_image", NotStartedError))

\* C7 happens: send_image has raised not-started on a client that launched
\* nothing
C7_SendAfterFailedStart ==
    /\ NotStarted
    /\ outcome = Raised("send_image", NotStartedError)

C9_ErrorEntryEndsCollection ==
    /\ [][(queue # <<>> /\ Head(queue).kind = "exception"
              /\ queue' = Tail(queue)) =>
             /\ outcome' = GenOutcome("raised", <<Head(queue)>>, gen.expected, yields)
             /\ ~gen'.active
             /\ pc' = "idle"]_vars
    /\ [][\A p \in 1 .. Len(procs) :
             (/\ procs[p].stdout # <<>>
              /\ procs'[p].stdout = Tail(procs[p].stdout)
              /\ Head(procs[p].stdout).type = "error"
              /\ client' = client
              /\ is_alive) =>
                 queue' = Append(queue, EngineError(Head(procs[p].stdout).message))
         ]_vars

\* C9 happens: collect_results raised the engine's error, message unchanged,
\* with a result queued behind it.
C9_EngineErrorBeforeResult ==
    /\ CollectRaised("engine_error")
    /\ outcome.value[1].text \in Messages
    /\ queue # <<>>
    /\ Head(queue).kind = "result"

\* C10 (as the claim words it): a Stopped client stays Stopped, a client that
\* left NotStarted never is NotStarted again, and send_image returns and
\* collect_results yields only while the client is Running.
C10_LifecycleIsOneWay ==
    [][/\ Stopped => Stopped'
       /\ ~NotStarted => ~NotStarted'
       /\ (outcome'.op = "send_image" /\ outcome'.status = "returned") => Running
       /\ (outcome'.op = "collect" /\ outcome'.status = "yielded") => Running
    ]_vars

\* the subprocesses launched by the client that still run, and the reader
\* threads it created that still run
LiveProcs == {p \in 1 .. Len(procs) : poll(p) = <<>>}
LiveReaders == {t \in 1 .. Len(threads) : thread_alive(t)}

\* C11 (as the claim words it): at every moment the client owns at most one
\* running engine subprocess and at most one running reader thread, and a
\* running reader reads the stream of the process the client holds.
C11_OneProcessOneReader ==
    /\ Cardinality(LiveProcs) <= 1
    /\ Cardinality(LiveReaders) <= 1
    /\ \A t \in LiveReaders : threads[t].stdout = client.proc

\* C12 (as the claim words it): when stop() returns on a started client, the
\* process it held runs no more and its stdin, stdout and stderr are closed.
C12_StopClosesAllStreams ==
    [][(pc = "stop_join" /\ pc' = "idle") =>
          LET p == procs'[client.proc]
          IN /\ p.returncode # <<>>
             /\ p.stdin_closed
             /\ p.stdout_closed
             /\ p.stderr_closed
    ]_vars

\* C13: a pipeline entry point that has started the client calls stop() on
\* it exactly once, as its last step, on every exit path.  stop() begins only
\* in the finally clause and returns only as the step that ends the entry
\* point; in the finally clause the stop step is always possible; an entry
\* point that has ended has returned or raised, holds no process handle, has
\* left no process running, and does nothing more.
C13_StopExactlyOnceOnEveryPath ==
    /\ [][(pc' = "stop_join" /\ pc # "stop_join") => xpc = "finally"]_vars
    /\ [][outcome'.op = "stop" => (xpc = "finally" /\ xpc' = "done")]_vars
    /\ [][(xpc' = "done" /\ xpc # "done" /\ procs # <<>>) =>
             outcome' = Returned("stop")]_vars
    /\ [][xpc = "done" => UNCHANGED <<xpc, client, pc, ret>>]_vars
    /\ [](xpc = "finally" => ENABLED (XStop \/ XStopFinish))
    /\ [](xpc = "done" =>
             /\ ret.status \in {"returned", "raised"}
             /\ ret.op # "none"
             /\ client.proc = NoProc
             /\ LiveProcs = {})

\* C13 happens: process_one has ended, after a failure while building an
\* overlay, with its client stopped.
C13_StoppedAfterOverlayFailure ==
    /\ xpc = "done"
    /\ ret = Raised("process_one", OverlayError)
    /\ Stopped

\* C14: within one run every page the page source produced is sent once.  No
\* subprocess receives two jobs with the same page_index; while extract_text
\* or process_one renders or collects, the jobs written are the pages
\* rendered, in order; and a job is written only by the send loop, before
\* any failure: never once the run has failed, collects or cleans up.
C14_EachPageSentOnce ==
    /\ [](\A p \in 1 .. Len(procs) :
             \A i, j \in 1 .. Len(JobsSent(p)) :
                 i # j => JobsSent(p)[i] # JobsSent(p)[j])
    /\ [](xpc \in {"render", "collect", "p_render", "p_collect"} =>
             JobsSent(client.proc) = rendered)
    /\ [][\A p \in 1 .. Len(procs) :
             Len(JobsSent(p)') > Len(JobsSent(p)) =>
                 /\ xpc \in {"render", "p_render", "i_send"}
                 /\ ret = NoCall
                 /\ Len(JobsSent(p)') = Len(JobsSent(p)) + 1]_vars

\* C14 happens: extract_text has sent two pages, its collection has timed
\* out, and each of the two jobs is on the engine's input once.
C14_TwoJobsAfterTimeout ==
    /\ xpc = "finally"
    /\ pc = "idle"
    /\ ret.op = "extract_text"
    /\ ret.status = "raised"
    /\ ret.value[1].cls = "timeout"
    /\ client.proc # NoProc
    /\ Len(JobsSent(client.proc)) = 2

\* C15 (as the claim words it): every page_index render_pdf_stream yields is
\* within [0, total_pages) and no page_index is yielded twice in one run.
C15_YieldedPagesInRangeAndUnique ==
    /\ \A i \in 1 .. Len(render.yielded) :
          0 <= render.yielded[i] /\ render.yielded[i] < render.total_pages
    /\ \A i, j \in 1 .. Len(render.yielded) :
          i # j => render.yielded[i] # render.yielded[j]

\* how often page q occurs in a list of pages
Occurrences(list, q) == Cardinality({i \in 1 .. Len(list) : list[i] = q})

\* how often the caller selected page q of the document: once for each entry
\* of selected_pages that is q, once when there is no selection
TimesSelected(q) ==
    IF q < 0 \/ q >= render.total_pages THEN 0
    ELSE IF render.selected_pages.given
    THEN Occurrences(render.selected_pages.list, q)
    ELSE 1

C17_RasterFailureSparesSiblings ==
    (render.at \in {"returned", "raised"} /\ render.dpi > 0) =>
        \A q \in Pages :
            (TimesSelected(q) > 0 /\ q \notin render.bad) =>
                Occurrences(render.yielded, q) > 0

\* the record of page_index that the caller of extract_text is to get, read
\* off the engine's result message
EngineRecord(page_index) ==
    LET items == EngineItems(page_index)
    IN [page_index |-> page_index,
        width |-> EngineWidth(page_index),
        height |-> EngineHeight(page_index),
        items |-> [k \in 1 .. Len(items) |->
                      [text |-> items[k].text,
                       x |-> items[k].bbox.x, y |-> items[k].bbox.y,
                       w |-> items[k].bbox.w, h |-> items[k].bbox.h,
                       confidence |-> IF "confidence" \in DOMAIN items[k]
                                      THEN items[k].confidence ELSE 1000]]]

\* C18: the record extract_text builds for a collected OCRResult carries the
\* result's page_index, width and height and the result's items, in order,
\* with text, x, y, w, h and confidence unchanged; and every record of the
\* list it returns is what the engine reported for that page.
C18_RecordsCarryTheResults ==
    /\ [][(xpc \in {"start", "render", "collect"} /\ results' # results) =>
             LET r == outcome'.value[1]
                 d == results'[Len(results')]
             IN /\ outcome'.status = "yielded"
                /\ results' = Append(results, d)
                /\ d.page_index = r.page_index
                /\ d.width = r.width
                /\ d.height = r.height
                /\ Len(d.items) = Len(r.items)
                /\ \A k \in 1 .. Len(r.items) :
                      /\ DOMAIN d.items[k] = {"text", "x", "y", "w", "h", "confidence"}
                      /\ d.items[k].text = r.items[k].text
                      /\ d.items[k].x = r.items[k].x
                      /\ d.items[k].y = r.items[k].y
                      /\ d.items[k].w = r.items[k].w
                      /\ d.items[k].h = r.items[k].h
                      /\ d.items[k].confidence = r.items[k].confidence]_vars
    /\ []((xpc \in {"finally", "done"} /\ ret.status = "returned") =>
             \A i \in 1 .. Len(ret.value) :
                 ret.value[i] = EngineRecord(ret.value[i].page_index))

\* C18 happens: for a document of two pages with one item each, extract_text
\* has returned the two records, page 0 first.
C18_TwoPagesOneItemEach ==
    /\ xpc = "done"
    /\ ret.status = "returned"
    /\ ret.value = <<EngineRecord(0), EngineRecord(1)>>
    /\ Len(ret.value[1].items) = 1
    /\ Len(ret.value[2].items) = 1
    /\ ret.value[1].items[1].text = "Hello"
    /\ ret.value[2].items[1].text = "World"

\* the fraction r equals num / den
RatIs(r, num, den) == r.den > 0 /\ r.num * den = r.den * num

\* C19: norm_to_points returns norm x pixel dimension x scale, x and w with
\* width_px, y and h with height_px, scale being 72/dpi for dpi > 0 and 1 for
\* dpi None or 0; for a 1000 x 1000 image at 300 dpi the box
\* (0.5, 0.5, 0.2, 0.1) becomes (120, 120, 48, 24).
C19_NormToPoints ==
    (call.fn = "norm_to_points" /\ call.status = "returned") =>
        LET x == call.args[1]
            y == call.args[2]
            w == call.args[3]
            h == call.args[4]
            width_px == call.args[5]
            height_px == call.args[6]
            dpi == call.args[7]
            num == IF dpi \in {<<>>, <<0>>} THEN 1 ELSE 72
            den == IF dpi \in {<<>>, <<0>>} THEN 1 ELSE dpi[1]
        IN /\ RatIs(call.result[1], x.num * width_px * num, x.den * den)
           /\ RatIs(call.result[2], y.num * height_px * num, y.den * den)
           /\ RatIs(call.result[3], w.num * width_px * num, w.den * den)
           /\ RatIs(call.result[4], h.num * height_px * num, h.den * den)
           /\ call.args = <<Rat(1, 2), Rat(1, 2), Rat(1, 5), Rat(1, 10),
                            1000, 1000, <<300>> >> =>
                 call.result = <<Rat(120, 1), Rat(120, 1), Rat(48, 1), Rat(24, 1)>>

\* C19 happens: the box (0.5, 0.5, 0.2, 0.1) of a 1000 x 1000 image at 300
\* dpi was converted.
C19_ExampleConverted ==
    /\ call.fn = "norm_to_points"
    /\ call.status = "returned"
    /\ call.args = <<Rat(1, 2), Rat(1, 2), Rat(1, 5), Rat(1, 10), 1000, 1000, <<300>> >>
    /\ call.result[1] = [num |-> 120, den |-> 1]
    /\ call.result[3] = [num |-> 48, den |-> 1]

\* C20 (as the claim words it): for a page of 612 x 792 points rotated by 90
\* degrees the overlay is transformed by a rotation of -90 degrees followed
\* by a translation of (0, 792), and every corner of the overlay lands within
\* the visible region of the rotated page: the 792 x 612 box it is displayed
\* in, or else the 612 x 792 box of its own coordinates.
C20_RotatedCornersVisible ==
    (/\ call.fn = "overlay_transformation"
     /\ call.status = "returned"
     /\ call.args = <<90, 612, 792>>) =>
        /\ call.result.trans = <<0, -1, 1, 0, 0, 792>>
        /\ \/ \A c \in call.result.corners :
                 0 <= c[1] /\ c[1] <= 792 /\ 0 <= c[2] /\ c[2] <= 612
           \/ \A c \in call.result.corners :
                 0 <= c[1] /\ c[1] <= 612 /\ 0 <= c[2] /\ c[2] <= 792

\* C24 (as the claim words it): extract_text_from_images returns one record
\* per image that is a file, in the order of the input list, each record
\* carrying the name of its image and what the engine reported for it,
\* whatever the order of the engine's results, whichever paths were passed
\* over as missing, and also when two images share a file name.
C24_ImageRecordsInInputOrder ==
    (ret.op = "extract_text_from_images" /\ ret.status = "returned") =>
        /\ Len(ret.value) = Len(rendered)
        /\ \A k \in 1 .. Len(ret.value) :
              /\ ret.value[k].image = rendered[k].name
              /\ ret.value[k].width = EngineWidth(rendered[k].idx)
              /\ ret.value[k].height = EngineHeight(rendered[k].idx)

\* C25 (as the claim words it): for every page specification parse_pages
\* accepts, parse_pages(format_pages(L), total) = L for the list L it
\* returned, the empty list included.
C25_RoundTripOfEveryList ==
    (/\ call.fn = "parse_pages"
     /\ call.status = "returned"
     /\ call.result.parsed.status = "returned") =>
        call.result.reparsed = call.result.parsed

\* the numbers the message of an exception carries
CarriedNumbers(e) ==
    {e.code[i] : i \in DOMAIN e.code}
        \cup {e.collected[i] : i \in DOMAIN e.collected}
        \cup {e.expected[i] : i \in DOMAIN e.expected}

\* C27 (as the claim words it): an error collect_results raises for a failed
\* engine request (an "error" message of the engine, or a line that is not
\* JSON) carries the page index of the page concerned, and the error of an
\* "error" message carries the engine's failure message.
C27_ErrorsCarryPageIndex ==
    (/\ outcome.op = "collect"
     /\ outcome.status = "raised"
     /\ outcome.value[1].cls \in {"engine_error", "json_error"}) =>
        /\ \E page_index \in 0 .. MaxCalls :
              page_index \in CarriedNumbers(outcome.value[1])
        /\ outcome.value[1].cls = "engine_error" =>
              outcome.value[1].text \in Messages

\* C28 (as the claim words it): the reader never uses self.proc after stop()
\* has cleared it: no reader thread is ended by an unhandled exception, and
\* the queue never holds the error the reader puts when reading self.proc
\* fails.
C28_ReaderNeverUsesClearedHandle ==
    /\ \A t \in 1 .. Len(threads) : threads[t].state # "crashed"
    /\ \A i \in 1 .. Len(queue) : queue[i] # ReadFailedError

\* C29 (as the claim words it): when collect_results raises the process-exited
\* error, every result line the engine wrote has been decoded, enqueued and
\* yielded: none is left in the subprocess's output or in the queue.
C29_NoResultLostOnExit ==
    (/\ outcome.op = "collect"
     /\ outcome.status = "raised"
     /\ outcome.value[1].cls = "process_exited") =>
        /\ \A i \in 1 .. Len(queue) : queue[i].kind # "result"
        /\ \A i \in 1 .. Len(procs[client.proc].stdout) :
              procs[client.proc].stdout[i].type # "result"

\* C30 (as the claim words it): a result collect_results yields while the
\* client holds a process, every earlier process having been stopped, is
\* the result of a job sent to that process; what an earlier start/stop
\* cycle left in the queue is not yielded.
C30_YieldsOnlyCurrentJobs ==
    (/\ outcome.op = "collect"
     /\ outcome.status = "yielded"
     /\ client.proc # NoProc
     /\ \A q \in 1 .. Len(procs) : q # client.proc => procs[q].stdout_closed) =>
        \E i \in DOMAIN JobsSent(client.proc) :
            JobsSent(client.proc)[i] = outcome.value[1].page_index

\* C21: write_final outputs exactly the pages of the original document, each
\* once and in the order 0 .. total_pages-1.  In process_one the writer, once
\* filled, holds page i-1 at position i, with one overlay merged when an
\* overlay was added for the page and unchanged when not, whatever the order
\* in which the overlays were added; and the complete file holds what the
\* writer holds.
C21_OutputPagesInDocumentOrder ==
    /\ (args.cli /\ composer.writer # <<>>) =>
          /\ Len(composer.writer) = MaxPages
          /\ \A i \in 1 .. Len(composer.writer) :
                /\ composer.writer[i].page = i - 1
                /\ composer.writer[i].overlays =
                      IF \E k \in 1 .. Len(results) : results[k].page_index = i - 1
                      THEN 1 ELSE 0
    /\ (args.cli /\ composer.writer = <<>>) => output.state = "absent"
    /\ (args.cli /\ output.state = "complete") => output.pages = composer.writer

\* C21 happens: process_one has written the file after the overlay of page 1
\* was added before the overlay of page 0.
C21_WrittenAfterOverlaysOutOfOrder ==
    /\ args.cli
    /\ output.state = "complete"
    /\ composer.overlays = <<1, 0>>
    /\ Len(results) = 2
    /\ results[1].page_index = 1

\* C22 (as the claim words it): for every sequence of add_page_overlay and
\* write_final calls on one composer no overlay is merged a second time into
\* its page, no page is twice in the output, and once write_final has
\* returned the composer holds no overlay.
C22_OverlayMergedOnceThenDiscarded ==
    /\ \A p \in Pages : composer.merged[p] <= 1
    /\ \A i, j \in 1 .. Len(output.pages) :
          i # j => output.pages[i].page # output.pages[j].page
    /\ ret = Returned("write_final") => composer.overlays = <<>>

\* C23 (as the claim words it): in every state the file at the output path
\* is absent or a complete document, and it is produced at most once.
C23_OutputAbsentOrComplete ==
    /\ output.state \in {"absent", "complete"}
    /\ output.produced <= 1

\* C26 (as the claim words it): in process_one with the swift engine no page
\* listed in --skip-pages is rendered, sent to the engine or given an overlay.
C26_SkippedPagesNotProcessed ==
    (/\ args.cli
     /\ args.skip_pages.given
     /\ parse_pages(args.skip_pages.text, MaxPages).status = "returned") =>
        LET skip_pages == page_set_of(parse_pages(args.skip_pages.text, MaxPages).value)
        IN /\ page_set_of(rendered) \cap skip_pages = {}
           /\ \A p \in 1 .. Len(procs) :
                 page_set_of(JobsSent(p)) \cap skip_pages = {}
           /\ overlay_keys(composer) \cap skip_pages = {}

\* a reader thread takes the first line of the output of process p: the step
\* of the model that shortens the stream by its head and is no step of stop()
ReaderTakesLine(p) ==
    /\ procs[p].stdout # <<>>
    /\ procs'[p].stdout = Tail(procs[p].stdout)
    /\ pc' = pc
    /\ client' = client

\* C31: a reader that reads a line that is not JSON while the client's
\* process runs puts exactly one parse error at the end of the queue and goes
\* on running; and every result or error line it reads while the process
\* runs, whatever it has read before, is decoded and put at the end of the
\* queue, so that what follows a bad line is queued behind its parse error
\* in the order of the stream.
C31_ParseErrorKeepsReading ==
    [][\A p \in 1 .. Len(procs) :
          (ReaderTakesLine(p) /\ is_alive) =>
             LET line == Head(procs[p].stdout)
             IN /\ line.type = "garbage" =>
                      /\ queue' = Append(queue, JSONError)
                      /\ threads' = threads
                /\ line.type = "result" =>
                      /\ queue' = Append(queue,
                             OCRResult(line.page_index, line.width, line.height,
                                 [k \in 1 .. Len(line.items) |-> OCRItem(line.items[k])]))
                      /\ threads' = threads
                /\ line.type = "error" =>
                      /\ queue' = Append(queue, EngineError(line.message))
                      /\ threads' = threads
    ]_vars

\* C31 happens: the reader, still running, has queued a parse error and
\* behind it the result of the line that followed.
C31_ResultQueuedBehindParseError ==
    /\ is_alive
    /\ client.out_thread # NoThread
    /\ thread_alive(client.out_thread)
    /\ \E i \in 1 .. Len(queue) - 1 :
          /\ queue[i] = JSONError
          /\ queue[i + 1].kind = "result"

\* C32 (as the claim words it): a reader that ends while the client still
\* holds its process, stop() not having begun, and the process has exited,
\* puts the fatal error into the queue as its last step, whether it ends on
\* a line or at the end of the stream.
C32_ExitAlwaysQueuesFatalError ==
    [][\A t \in 1 .. Len(threads) :
          (/\ threads[t].state = "running"
           /\ threads'[t].state # "running"
           /\ pc = "idle"
           /\ client.proc = threads[t].stdout
           /\ poll(client.proc) # <<>>) =>
              queue' = Append(queue, UnexpectedExitError(poll(client.proc)))
    ]_vars

\* C33 (as the claim words it): every line a reader takes while the client's
\* process runs adds exactly one entry, a result or an error, to the queue.
C33_EveryLineQueuesOneEntry ==
    [][\A p \in 1 .. Len(procs) :
          (ReaderTakesLine(p) /\ is_alive) =>
             /\ Len(queue') = Len(queue) + 1
             /\ queue'[Len(queue')].kind \in {"result", "exception"}
    ]_vars

\* C37: under SpecFair every collect_results generator ends: it returns
\* after its last result or raises.  While it waits in queue.get the timeout
\* ends the wait, whatever the reader and the engine do.
C37_CollectAlwaysEnds ==
    /\ gen.active ~> ~gen.active
    /\ (pc = "collect_get") ~> (pc # "collect_get")

\* C37 happens: collect_results timed out after the process exited and the
\* reader ended during the wait, nothing having been put into the queue.
C37_TimedOutAfterReaderEndedSilently ==
    /\ CollectRaised("timeout")
    /\ client.proc # NoProc
    /\ poll(client.proc) # <<>>
    /\ threads[client.out_thread].state = "done"
    /\ queue = <<>>

\* C38: in the input of every subprocess the stop line, once written, is the
\* last line: no job follows it and it is written once.  A send_image that
\* returns has written to an input that holds no stop line, and stop()
\* writes the stop line only to an input that holds none.
C38_NothingWrittenAfterStopLine ==
    /\ [](\A p \in 1 .. Len(procs) :
            \A i \in 1 .. Len(procs[p].stdin) :
                procs[p].stdin[i] = StopLine => i = Len(procs[p].stdin))
    /\ [][\A p \in 1 .. Len(procs) :
             Len(procs'[p].stdin) > Len(procs[p].stdin) =>
                \A i \in 1 .. Len(procs[p].stdin) : procs[p].stdin[i] # StopLine
        ]_vars

\* C38 happens: stop() has written the stop line behind a job and waits for
\* the reader.
C38_StopLineBehindJob ==
    /\ pc = "stop_join"
    /\ Len(procs[client.proc].stdin) >= 2
    /\ procs[client.proc].stdin[Len(procs[client.proc].stdin)] = StopLine
    /\ procs[client.proc].stdin_closed

\* C39: each result collect_results yields is the entry at the head of the
\* queue, which the step removes, and is put behind what the call has
\* yielded; every entry that leaves the queue is its head and is what the
\* step yields or raises.  No entry is passed over and none is moved.
C39_YieldsInQueueOrder ==
    [][/\ (gen.active /\ gen'.active /\ gen'.collected = gen.collected + 1) =>
             /\ queue # <<>>
             /\ Head(queue).kind = "result"
             /\ queue' = Tail(queue)
             /\ yields' = Append(yields, Head(queue))
             /\ outcome' = GenOutcome("yielded", <<Head(queue)>>, gen.expected, yields')
       /\ Len(queue') < Len(queue) =>
             /\ queue' = Tail(queue)
             /\ outcome'.op = "collect"
             /\ outcome'.value = <<Head(queue)>>
    ]_vars

\* C39 happens: collect_results has yielded the result of page 1 before the
\* result of page 0, as they were queued.
C39_YieldedOutOfPageOrder ==
    /\ gen.active
    /\ Len(yields) = 2
    /\ yields[1].page_index > yields[2].page_index

\* the steps of stop() in the order the claim gives them; "wait_timeout" is
\* the bounded wait for the process ending by its timeout, "wait" a wait that
\* ends with the process ended
StopOrder ==
    <<"write_stop", "close_stdin", "join_reader", "terminate", "wait_timeout",
      "kill", "wait", "close_stdout", "close_stderr", "clear_handle">>
StopRank(step) == CHOOSE i \in 1 .. Len(StopOrder) : StopOrder[i] = step
\* the steps stop() takes whatever the state of the reader and of the process
StopAlways(step) == step \notin {"join_reader", "wait_timeout", "kill"}

\* C34: the steps stop() has performed are in the order write the stop line,
\* close stdin, join the reader, terminate, wait, close stdout, close stderr,
\* clear the handle, none of them twice.  The process is killed only
\* directly after the bounded wait has timed out, which is directly after
\* the request to terminate.  A stop() that wrote the stop line (the process
\* was running) has closed stdin next, and when it returns it has performed
\* every step of the list, the join when the reader was alive.
C34_StopStepsInFixedOrder ==
    /\ \A i, j \in 1 .. Len(steps) :
          i < j => StopRank(steps[i]) < StopRank(steps[j])
    /\ \A i \in 1 .. Len(steps) :
          /\ steps[i] = "kill" =>
                /\ i >= 3
                /\ steps[i - 1] = "wait_timeout"
                /\ steps[i - 2] = "terminate"
          /\ steps[i] = "wait_timeout" => (i >= 2 /\ steps[i - 1] = "terminate")
          /\ steps[i] = "write_stop" => i = 1
    /\ (Len(steps) >= 2 /\ steps[1] = "write_stop") => steps[2] = "close_stdin"
    /\ (pc = "idle" /\ steps # <<>>) =>
          /\ client.proc = NoProc
          /\ SelectSeq(steps, StopAlways) =
                IF steps[1] = "write_stop"
                THEN <<"write_stop", "close_stdin", "terminate", "wait",
                       "close_stdout", "close_stderr", "clear_handle">>
                ELSE <<"terminate", "wait", "close_stdout", "close_stderr",
                       "clear_handle">>
          /\ \A p \in 1 .. Len(procs) :
                /\ procs[p].returncode # <<>>
                /\ procs[p].stdout_closed
                /\ procs[p].stderr_closed

\* C34 happens: stop() on a running client has returned after the process
\* did not end within the bounded wait and was killed.
C34_StoppedByKill ==
    /\ pc = "idle"
    /\ outcome = Returned("stop")
    /\ steps = <<"write_stop", "close_stdin", "join_reader", "terminate",
                 "wait_timeout", "kill", "wait", "close_stdout", "close_stderr",
                 "clear_handle">>

\* C35 (as the claim words it): stop() called while the reader waits for
\* output only waits for what is bound to happen.  Whenever such a stop() is
\* at the write of the stop line, the process has exited, or its input pipe
\* has room, or the engine can still take a line from it.
C35_StopNeverWaitsForEver ==
    (/\ pc = "s_write"
     /\ poll(client.proc) = <<>>
     /\ thread_alive(client.out_thread)
     /\ procs[client.proc].stdout = <<>>) =>
        \/ InPipe(client.proc) < StdinCapacity
        \/ pipes.engine = "running"

\* C36 (as the claim words it): a send_image that waits in its write, the
\* engine running, waits for an engine that can still take a line from its
\* input: the engine is never itself waiting in a write that nothing will
\* end.
C36_SendNeverWaitsForEver ==
    (pc = "send_write" /\ poll(client.proc) = <<>>) => pipes.engine = "running"

\* positions of the rendered image of a page, in points: its corners and two
\* points inside
RecognisedPositions(rotation, w, h) ==
    LET size == displayed_size(rotation, w, h)
    IN {<<0, 0>>, <<size[1], 0>>, <<0, size[2]>>, <<size[1], size[2]>>,
        <<100, 50>>, <<300, 400>>}

\* C40 (as the claim words it): for a page rotated by 90, 180 or 270 degrees
\* the transformation write_final applies to the overlay undoes the display
\* rotation: what the overlay holds at a position p of the rendered image is
\* shown at p after the merge.  For rotation 0 the transformation is the
\* identity.
C40_OverlayShownWhereRecognised ==
    (/\ call.fn = "overlay_transformation"
     /\ call.status = "returned") =>
        LET rotation == call.args[1]
            w == call.args[2]
            h == call.args[3]
        IN /\ rotation = 0 => call.result.trans = Identity
           /\ \A pt \in RecognisedPositions(rotation, w, h) :
                 page_display(rotation, w, h, apply_on(call.result.trans, pt)) = pt

====
